---- MODULE Spec2Model ----
(***************************************************************************)
(* A model of docsmith: the docify pipeline (generate.js), the metadata    *)
(* aggregator (localMeta.js), the badge synthesizer (badges.js), the       *)
(* filesystem scanner (fileReader.js) and the helpers of utils.js.         *)
(*                                                                         *)
(* The specifications of the module:                                       *)
(*   Spec            one invocation of docify, step by step                *)
(*   SpecRace        the same beside a process that may create README.md   *)
(*   SpecGenerateJs  one invocation of the docify of src/generate.js       *)
(*   SpecAnalyze     one pass of analyzeLocalProject over a project root   *)
(*   SpecScan        one call of getProjectTreeAndContents over a tree     *)
(*   SpecBadges      one call of generateAllBadges on given arguments      *)
(*   SpecParse       one descriptor content through its parser             *)
(*   SpecPrompt      one call of buildAIPrompt on given arguments          *)
(*   SpecRetry       one call of retryWithBackoff; SpecRetryFair adds the  *)
(*                   fairness of its steps                                 *)
(***************************************************************************)
EXTENDS Integers, Sequences, FiniteSets, TLC

VARIABLES
  \* ---- docify (generate.js) ----
  pc,            \* position of docify
  url,           \* TRUE iff a URL argument was given
  isDryRun,      \* the --dry-run flag
  isGit,         \* the working directory is a git repository
  root,          \* descriptor files of the working directory
  githubData,    \* let githubData = null
  localData,     \* let localData = null
  badges,        \* { importantBadges, otherBadges }
  finalContent,  \* readmeLines.join('\n')
  readme0,       \* README.md as it was when docify started
  readme,        \* README.md in the working directory
  stdout,        \* the document printed by the dry run
  accessResult,  \* what fs.access saw in confirmOverwrite
  prompted,      \* inquirer.prompt was shown
  answer,        \* answers.overwrite
  nWrites,       \* calls of fs.writeFile(outputPath, ...)
  tempDirExists, \* the directory made by tmp.dirSync exists
  tempDirsMade,  \* directories created by tmp.dirSync
  outcome,       \* "running", "resolved" or "rejected"
  error,         \* message of the error docify rethrows
  configExists,  \* the configuration file with the API key exists
  readmeContent, \* what generateReadmeContent returned
  calls,         \* the collaborators called so far and whether each returned
  tip,           \* the tip the catch block prints
  exitStatus,    \* the exit status of the process, -1 while it runs
  source,        \* the copy of generate.js whose docify runs
  extraPrompt,   \* the extraPrompt argument
  prompt,        \* the prompt sent to the generation service
  cause,         \* message of the error generateReadmeContent caught
  \* ---- analyzeLocalProject (localMeta.js) ----
  aRoot,         \* descriptor files of basePath
  aIdx,          \* index of the next entry of parsers
  aMeta,         \* the metadata object
  aAssigned,     \* assignments made to metadata.projectType
  aRan,          \* the parsers invoked so far
  aStatus,       \* "idle", "running", "returned" or "raised"
  \* ---- getProjectTreeAndContents (fileReader.js) ----
  sTree,         \* the directory tree under basePath
  sReading,      \* directories whose fs.readdir is in flight
  sListed,       \* directories whose fs.readdir has resolved
  sResults,      \* the value each resolved getFiles(dir) promise holds
  sOrder,        \* the directories in the order their getFiles resolved
  sAllFiles,     \* allFiles
  sNext,         \* index of the next file of the for-of loop
  sContents,     \* fileContents
  sTreeObj,      \* fileTreeObj
  sFailed,       \* the paths whose fs.readdir or fs.readFile rejected
  sStatus,       \* "idle", "listing", "reading", "resolved" or "rejected"
  sError,        \* the path whose error the scan rejects with
  sReturned,     \* { fileTree, fileContents } as returned to the caller
  \* ---- generateAllBadges (badges.js) ----
  bGithub,       \* the githubData argument
  bLocal,        \* the localData argument
  bOptions,      \* the options argument
  bResult,       \* { importantBadges, otherBadges }
  bStatus,       \* "idle", "called", "returned" or "raised"
  \* ---- the descriptor parsers (localMeta.js) ----
  pKind,         \* the descriptor read: "requirements.txt", "Makefile", "Dockerfile"
  pContent,      \* what fs.readFile resolved with
  pResult,       \* the record the parser returned
  pStatus,       \* "idle", "read" or "returned"
  \* ---- buildAIPrompt (generate.js) ----
  qGithub,       \* the githubData argument
  qLocal,        \* the localData argument
  qExtra,        \* the extraPrompt argument
  qPrompt,       \* the prompt returned, section by section
  qStatus,       \* "idle", "called" or "returned"
  \* ---- retryWithBackoff (utils.js) ----
  rMax,          \* maxRetries
  rBase,         \* baseDelay
  rAttempt,      \* attempt
  rCalls,        \* calls of fn so far
  rWaits,        \* the delays slept so far, in order
  rLastError,    \* lastError
  rSettled,      \* the value or the error retryWithBackoff settled with
  rStatus        \* "idle", "loop", "calling", "sleeping", "resolved" or "rejected"

docifyVars ==
  << pc, url, isDryRun, isGit, root, githubData, localData, badges,
     finalContent, readme0, readme, stdout, accessResult, prompted, answer,
     nWrites, tempDirExists, tempDirsMade, outcome, error, configExists,
     readmeContent, calls, tip, exitStatus, source, extraPrompt, prompt,
     cause >>

analyzeVars == << aRoot, aIdx, aMeta, aAssigned, aRan, aStatus >>

scanVars ==
  << sTree, sReading, sListed, sResults, sOrder, sAllFiles, sNext, sContents,
     sTreeObj, sFailed, sStatus, sError, sReturned >>

badgeVars == << bGithub, bLocal, bOptions, bResult, bStatus >>

parseVars == << pKind, pContent, pResult, pStatus >>

promptVars == << qGithub, qLocal, qExtra, qPrompt, qStatus >>

retryVars == << rMax, rBase, rAttempt, rCalls, rWaits, rLastError, rSettled, rStatus >>

vars ==
  << docifyVars, analyzeVars, scanVars, badgeVars, parseVars, promptVars, retryVars >>

(***************************************************************************)
(* JavaScript values                                                       *)
(***************************************************************************)
Undefined == "undefined"
Null == "null"
UndefinedNum == -1          \* undefined where a number is expected
NoData == [null |-> TRUE]   \* the null object (githubData, localData, a parser's null)

\* JavaScript truthiness of a string-valued expression
Truthy(v) == v \notin {Undefined, Null, ""}

\* obj.field of a string field: undefined when obj is null (obj?.field) or
\* has no such field
Get(obj, f) == IF obj # NoData /\ f \in DOMAIN obj THEN obj[f] ELSE Undefined

\* obj.field of a number field
GetNum(obj, f) == IF obj # NoData /\ f \in DOMAIN obj THEN obj[f] ELSE UndefinedNum

\* obj && obj.field, for an object-valued field
Has(obj, f) == obj # NoData /\ f \in DOMAIN obj

(***************************************************************************)
(* Badges (badges.js).  A badge is its markdown, kept as the parts the     *)
(* template interpolates: the label, the style and the interpolated value. *)
(* The empty string '' is EmptyBadge.                                      *)
(***************************************************************************)
EmptyBadge == [label |-> "", style |-> "", value |-> ""]

Badge(label, style, value) == [label |-> label, style |-> style, value |-> value]

\* options.style || 'flat-square'
StyleOf(options) ==
  IF Truthy(Get(options, "style")) THEN options.style ELSE "flat-square"

generateStarsBadge(repoFullName, stars, options) ==
  IF ~Truthy(repoFullName) \/ stars = UndefinedNum THEN EmptyBadge
  ELSE Badge("GitHub Stars", StyleOf(options), repoFullName)

generateLicenseBadge(license, options) ==
  IF ~Truthy(license) THEN EmptyBadge
  ELSE Badge("License", StyleOf(options), license)

generateLanguageBadge(language) ==
  IF ~Truthy(language) \/ language = "Unknown" THEN EmptyBadge
  ELSE Badge("Language", "flat-square", language)

generateForksBadge(repoFullName, forks) ==
  IF ~Truthy(repoFullName) \/ forks = UndefinedNum THEN EmptyBadge
  ELSE Badge("GitHub Forks", "flat-square", repoFullName)

generateIssuesBadge(repoFullName) ==
  IF ~Truthy(repoFullName) THEN EmptyBadge
  ELSE Badge("GitHub Issues", "flat-square", repoFullName)

generateLastCommitBadge(repoFullName) ==
  IF ~Truthy(repoFullName) THEN EmptyBadge
  ELSE Badge("Last Commit", "flat-square", repoFullName)

generateVersionBadge(version, packageManager, packageName, options) ==
  IF ~Truthy(version) THEN EmptyBadge
  ELSE IF packageManager \in {"npm", "pypi"} /\ Truthy(packageName)
       THEN Badge("Version", StyleOf(options), packageName)
       ELSE Badge("Version", StyleOf(options), version)

generateDockerBadge(hasDockerfile) ==
  IF ~hasDockerfile THEN EmptyBadge
  ELSE Badge("Docker", "flat-square", "supported")

selectBestBadgeStyle(repoType, isLibrary, isApp, isPopular) ==
  IF isPopular THEN "for-the-badge"
  ELSE IF isLibrary THEN "flat-square"
  ELSE IF isApp THEN "flat"
  ELSE IF repoType = "legacy" THEN "plastic"
  ELSE "flat-square"

\* a push without the test
PushAlways(list, badge) == Append(list, badge)

\* if (badge) list.push(badge)
Push(list, badge) == IF badge = EmptyBadge THEN list ELSE Append(list, badge)

(***************************************************************************)
(* File contents as the scanner indexes them.  The content of a            *)
(* package.json is what JSON.parse makes of it: an object with a name and  *)
(* a version, the literal null, or a syntax error; the empty file is the   *)
(* empty (falsy) string.                                                   *)
(***************************************************************************)
JsonObject(name, version) == [kind |-> "object", name |-> name, version |-> version]
JsonNull == [kind |-> "jsonnull", name |-> Undefined, version |-> Undefined]
Malformed == [kind |-> "malformed", name |-> Undefined, version |-> Undefined]
EmptyFile == [kind |-> "empty", name |-> Undefined, version |-> Undefined]
PlainText == [kind |-> "text", name |-> Undefined, version |-> Undefined]

\* localData.fileContents[file], as a condition
HasContent(ld, file) ==
  /\ Has(ld, "fileContents")
  /\ file \in DOMAIN ld.fileContents
  /\ ld.fileContents[file] # EmptyFile

\* JSON.parse(content) followed by pkg.version and pkg.name
JsonParseThrows(content) == content.kind \in {"malformed", "jsonnull", "text"}

(***************************************************************************)
(* generateAllBadges(githubData, localData, options).  The result carries  *)
(* raised = TRUE when JSON.parse (or the property read that follows it)    *)
(* throws.                                                                 *)
(***************************************************************************)
BadgeStyle(gd, ld, options) ==
  IF Truthy(Get(options, "style")) THEN options.style
  ELSE selectBestBadgeStyle(
         Get(gd, "repoType"),
         Has(ld, "isLibrary"),
         Has(ld, "isApp"),
         GetNum(gd, "stars") > 1000)

ImportantRemote(gd, badgeOpts) ==
  IF gd = NoData THEN << >>
  ELSE Push(Push(<< >>,
         generateStarsBadge(Get(gd, "fullName"),
                            GetNum(gd, "stars"), badgeOpts)),
         generateLicenseBadge(Get(gd, "license"), badgeOpts))

ImportantBadges(gd, ld, badgeOpts) ==
  IF HasContent(ld, "package.json")
       /\ ~JsonParseThrows(ld.fileContents["package.json"])
  THEN Push(ImportantRemote(gd, badgeOpts),
            generateVersionBadge(ld.fileContents["package.json"].version,
                                 "npm",
                                 ld.fileContents["package.json"].name,
                                 badgeOpts))
  ELSE ImportantRemote(gd, badgeOpts)

OtherRemote(gd) ==
  IF gd = NoData THEN << >>
  ELSE Push(Push(Push(Push(<< >>,
         generateForksBadge(Get(gd, "fullName"), GetNum(gd, "forks"))),
         generateIssuesBadge(Get(gd, "fullName"))),
         generateLastCommitBadge(Get(gd, "fullName"))),
         generateLanguageBadge(Get(gd, "language")))

OtherDocker(ld) ==
  IF Has(ld, "fileContents")
  THEN Push(<< >>, generateDockerBadge(HasContent(ld, "Dockerfile")))
  ELSE << >>

DetectedLanguage(ld) ==
  IF HasContent(ld, "package.json") THEN "JavaScript"
  ELSE IF HasContent(ld, "requirements.txt") \/ HasContent(ld, "setup.py")
       THEN "Python"
  ELSE IF HasContent(ld, "Cargo.toml") THEN "Rust"
  ELSE Null

OtherLocalLanguage(gd, ld) ==
  IF gd = NoData /\ Has(ld, "fileContents")
  THEN Push(<< >>, generateLanguageBadge(DetectedLanguage(ld)))
  ELSE << >>

OtherBadges(gd, ld) ==
  OtherRemote(gd) \o OtherDocker(ld)
    \o OtherLocalLanguage(gd, ld)

generateAllBadges(gd, ld, options) ==
  LET style == BadgeStyle(gd, ld, options)
      badgeOpts == [style |-> style]
  IN IF HasContent(ld, "package.json")
          /\ JsonParseThrows(ld.fileContents["package.json"])
     THEN [raised |-> TRUE, importantBadges |-> << >>, otherBadges |-> << >>]
     ELSE [raised |-> FALSE,
           importantBadges |-> ImportantBadges(gd, ld, badgeOpts),
           otherBadges |-> OtherBadges(gd, ld)]

(***************************************************************************)
(* Project roots (localMeta.js).  A root says, for each descriptor file    *)
(* the parsers look for, whether it is absent, present but unreadable      *)
(* (fs.readFile rejects), present with content that does not parse         *)
(* (package.json only: JSON.parse throws), or present and parsed.          *)
(***************************************************************************)
parsers ==
  << "package.json", "requirements.txt", "setup.py", "Makefile", "Dockerfile",
     "Cargo.toml" >>

ParserNames == { parsers[i] : i \in 1..Len(parsers) }

DescriptorStates(name) ==
  IF name = "package.json" THEN {"absent", "unreadable", "malformed", "ok"}
  ELSE {"absent", "unreadable", "ok"}

Roots == { r \in [ParserNames -> {"absent", "unreadable", "malformed", "ok"}] :
             \A n \in ParserNames : r[n] \in DescriptorStates(n) }

\* fileExists(path) and then fs.readFile + parse inside try/catch: every
\* parser returns null when the file is absent and null (with a warning)
\* when reading or parsing throws.
ParserResult(state, record) ==
  IF state = "absent" THEN [raised |-> FALSE, value |-> NoData]
  ELSE IF state \in {"unreadable", "malformed"} THEN [raised |-> FALSE, value |-> NoData]
  ELSE [raised |-> FALSE, value |-> record]

\* {"name":"x","version":"1.0.0"}
parsePackageJson(r) ==
  ParserResult(r["package.json"],
    [type |-> "node", name |-> "x", version |-> "1.0.0",
     scripts |-> {}, dependencies |-> << >>])

parseRequirementsTxt(r) ==
  ParserResult(r["requirements.txt"],
    [type |-> "python", dependencies |-> << "foo" >>])

parseSetupPy(r) ==
  ParserResult(r["setup.py"],
    [type |-> "python", name |-> "x", version |-> "1.0.0"])

\* build: / test: build
parseMakefile(r) ==
  ParserResult(r["Makefile"],
    [type |-> "makefile", targets |-> << "build", "test" >>])

\* FROM node:18 / EXPOSE 3000
parseDockerfile(r) ==
  ParserResult(r["Dockerfile"],
    [type |-> "docker", baseImage |-> "node:18", exposedPort |-> 3000])

parseCargoToml(r) ==
  ParserResult(r["Cargo.toml"],
    [type |-> "rust", name |-> "x", version |-> "1.0.0", edition |-> "2021"])

RunParser(name, r) ==
  CASE name = "package.json" -> parsePackageJson(r)
    [] name = "requirements.txt" -> parseRequirementsTxt(r)
    [] name = "setup.py" -> parseSetupPy(r)
    [] name = "Makefile" -> parseMakefile(r)
    [] name = "Dockerfile" -> parseDockerfile(r)
    [] name = "Cargo.toml" -> parseCargoToml(r)

NewMetadata ==
  [basePath |-> "cwd", projectType |-> "unknown", files |-> << >>, summary |-> << >>]

\* if (result.type && metadata.projectType === 'unknown')
AssignsType(meta, res) ==
  /\ ~res.raised
  /\ res.value # NoData
  /\ Truthy(Get(res.value, "type"))
  /\ meta.projectType = "unknown"

\* The body of the loop over parsers: try { ... } catch { warn }
AnalyzeStep(meta, name, res) ==
  IF res.raised \/ res.value = NoData THEN meta
  ELSE [meta EXCEPT
          !.files = (name :> res.value) @@ @,
          !.projectType = IF AssignsType(meta, res) THEN res.value.type ELSE @]

\* a loop that stops at the first parser that returns null
AfterParserStopsOnNull(idx, res) ==
  IF res.value = NoData THEN Len(parsers) + 1 ELSE idx + 1

\* for (const { name, parser } of parsers): the index of the next parser
AfterParser(idx, res) == idx + 1

SummaryLine(text, arg) == [text |-> text, arg |-> arg]

generateProjectSummary(meta) ==
  LET f == meta.files
      type == IF meta.projectType # "unknown"
              THEN << SummaryLine("Detected project", meta.projectType) >> ELSE << >>
      node == IF "package.json" \in DOMAIN f
              THEN (IF f["package.json"].scripts # {}
                    THEN << SummaryLine("NPM scripts available", "") >> ELSE << >>)
                   \o (IF Len(f["package.json"].dependencies) > 0
                       THEN << SummaryLine("production dependencies",
                                 ToString(Len(f["package.json"].dependencies))) >>
                       ELSE << >>)
              ELSE << >>
      make == IF "Makefile" \in DOMAIN f /\ Len(f["Makefile"].targets) > 0
              THEN << SummaryLine("Makefile with targets",
                        IF Len(f["Makefile"].targets) > 5 THEN "..." ELSE "") >>
              ELSE << >>
      docker == IF "Dockerfile" \in DOMAIN f
                THEN << SummaryLine("Dockerized application",
                          IF Truthy(f["Dockerfile"].baseImage)
                          THEN f["Dockerfile"].baseImage ELSE "") >>
                     \o (IF f["Dockerfile"].exposedPort # 0
                         THEN << SummaryLine("Exposes port",
                                   ToString(f["Dockerfile"].exposedPort)) >>
                         ELSE << >>)
                ELSE << >>
      req == IF "requirements.txt" \in DOMAIN f
             THEN << SummaryLine("Python project with dependencies",
                       ToString(Len(f["requirements.txt"].dependencies))) >>
             ELSE << >>
      setup == IF "setup.py" \in DOMAIN f
               THEN << SummaryLine("Python package with setup.py", "") >> ELSE << >>
      cargo == IF "Cargo.toml" \in DOMAIN f
               THEN << SummaryLine("Rust project",
                         IF Truthy(f["Cargo.toml"].edition)
                         THEN f["Cargo.toml"].edition ELSE "") >>
               ELSE << >>
  IN type \o node \o make \o docker \o req \o setup \o cargo

RECURSIVE AnalyzeFrom(_, _, _)
AnalyzeFrom(meta, idx, r) ==
  IF idx > Len(parsers) THEN meta
  ELSE AnalyzeFrom(AnalyzeStep(meta, parsers[idx], RunParser(parsers[idx], r)),
                   AfterParser(idx, RunParser(parsers[idx], r)), r)

\* analyzeLocalProject(basePath), as docify awaits it
analyzeLocalProject(r) ==
  LET meta == AnalyzeFrom(NewMetadata, 1, r)
  IN [meta EXCEPT !.summary = generateProjectSummary(meta)]

(***************************************************************************)
(* Text.  A text is a sequence of tokens: a line break, a space, a run of  *)
(* narrative without a line break, or a badge's markdown.                  *)
(***************************************************************************)
NL == [t |-> "nl", s |-> "", b |-> EmptyBadge]
SP == [t |-> "sp", s |-> "", b |-> EmptyBadge]
Run(str) == [t |-> "run", s |-> str, b |-> EmptyBadge]
Markup(badge) == [t |-> "badge", s |-> "", b |-> badge]

\* list.join(' ') of a list of badges
RECURSIVE JoinSpace(_)
JoinSpace(list) ==
  IF Len(list) = 0 THEN << >>
  ELSE IF Len(list) = 1 THEN << Markup(list[1]) >>
  ELSE << Markup(list[1]), SP >> \o JoinSpace(Tail(list))

formatBadgesMarkdown(importantBadges, otherBadges) ==
  (IF Len(importantBadges) > 0 THEN JoinSpace(importantBadges) \o << NL, NL >> ELSE << >>)
  \o (IF Len(otherBadges) > 0 THEN JoinSpace(otherBadges) \o << NL, NL >> ELSE << >>)

\* text.split('\n')
RECURSIVE SplitLines(_)
SplitLines(text) ==
  IF \A i \in 1..Len(text) : text[i] # NL THEN << text >>
  ELSE LET i == CHOOSE k \in 1..Len(text) :
                  text[k] = NL /\ \A j \in 1..(k - 1) : text[j] # NL
       IN << SubSeq(text, 1, i - 1) >> \o SplitLines(SubSeq(text, i + 1, Len(text)))

\* lines.join('\n')
RECURSIVE JoinLines(_)
JoinLines(lines) ==
  IF Len(lines) = 0 THEN << >>
  ELSE IF Len(lines) = 1 THEN lines[1]
  ELSE lines[1] \o << NL >> \o JoinLines(Tail(lines))

\* the badges put in front of the narrative
SpliceInFront(lines, item) == << item >> \o lines

\* lines.splice(1, 0, item)
Splice1(lines, item) ==
  IF Len(lines) = 0 THEN << item >>
  ELSE << lines[1] >> \o << item >> \o Tail(lines)

\* readmeLines = readmeContent.split('\n'); readmeLines.splice(1, 0, badgesMarkdown);
\* finalContent = readmeLines.join('\n')
AssembleDocument(content, badgesMarkdown) ==
  JoinLines(Splice1(SplitLines(content), badgesMarkdown))

\* src/generate.js: finalContent = badgesMarkdown + readmeContent
PrependBadges(content, badgesMarkdown) == badgesMarkdown \o content

\* the document docify assembles, by the copy of generate.js that runs
FinalContent(src, content, badgesMarkdown) ==
  IF src = "part_004" THEN AssembleDocument(content, badgesMarkdown)
  ELSE PrependBadges(content, badgesMarkdown)

(***************************************************************************)
(* Inputs of one docify invocation                                         *)
(***************************************************************************)
\* what fetchRepoMetadata returns: stars and forks default to 0, language
\* to 'Unknown', license to null
GithubDatas ==
  { [name |-> "repo", fullName |-> "owner/repo", stars |-> st, forks |-> 0,
     language |-> lang, license |-> lic] :
      st \in {0, 2000}, lang \in {"Unknown", "JavaScript"}, lic \in {Null, "MIT"} }

\* messages of the errors fetchRepoMetadata and getCurrentRepoUrl throw
FetchErrors ==
  { "Repository not found or is private",
    "GitHub API rate limit exceeded. Please try again later." }

\* the narrative the generation service returns
Narratives ==
  { << >>,
    << Run("# Title") >>,
    << Run("# Title"), NL, Run("Body") >>,
    << Run("# Title"), NL, NL, Run("Body"), NL, Run("More") >> }

\* messages of the errors getApiKey and the generation service throw
GenerationErrors ==
  { "API key not configured. Please run docsmith configure first",
    "API key not valid. Please pass a valid API key.",
    "Requests from this API key exceed the rate limit",
    "quota exceeded", "rate limit", "network error" }

\* the project roots docify is run on
DocifyRoots ==
  { r \in Roots :
      /\ r["requirements.txt"] = "absent"
      /\ r["setup.py"] = "absent"
      /\ r["Makefile"] = "absent"
      /\ r["Dockerfile"] # "unreadable"
      /\ r["Cargo.toml"] # "unreadable"
      /\ r["package.json"] # "unreadable" }

\* the extraPrompt docify is called with: none, or a short text
DocifyExtraPrompts == { << >>, << "x" >> }

\* readmeContent before generateReadmeContent has returned
NoNarrative == << Run("<none>") >>

\* the exit status while the process runs
Running == -1

\* one entry of the record of calls
Call(op, ok) == [op |-> op, ok |-> ok]

\* messages of the errors getCurrentRepoUrl throws
RepoUrlErrors ==
  { "No remote origin URL found", "Remote origin is not a GitHub repository" }

\* message.includes(needle), for the messages docify can meet and the
\* needles its catch blocks look for
Includes(message, needle) ==
  CASE needle = "API key" ->
         message \in { "API key not configured. Please run docsmith configure first",
                       "API key not valid. Please pass a valid API key.",
                       "Requests from this API key exceed the rate limit",
                       "Invalid API key. Please run docsmith configure to set up your API key." }
    [] needle = "quota" ->
         message \in { "quota exceeded",
                       "API quota exceeded. Please try again later or check your API usage limits." }
    [] needle = "limit" ->
         message \in { "rate limit",
                       "Requests from this API key exceed the rate limit",
                       "GitHub API rate limit exceeded. Please try again later.",
                       "API quota exceeded. Please try again later or check your API usage limits." }
    [] needle = "Git repository" ->
         message \in { "Current directory is not a Git repository and no URL was provided." }
    [] needle = "GitHub" ->
         message \in { "GitHub API rate limit exceeded. Please try again later.",
                       "Remote origin is not a GitHub repository" }
    [] OTHER -> FALSE

\* the tip printed by the catch block of docify
Tip(message) ==
  IF Includes(message, "API key") THEN "Run docsmith configure to set up your API key"
  ELSE IF Includes(message, "Git repository")
  THEN "Initialize a git repository with git init or provide a --url parameter"
  ELSE IF Includes(message, "GitHub")
  THEN "Check if the repository URL is correct and publicly accessible"
  ELSE "none"

\* README.md before docify runs
OldReadme == [exists |-> TRUE, content |-> << Run("# Old"), NL, Run("kept") >>]
NoReadme == [exists |-> FALSE, content |-> << >>]

NoBadges == [raised |-> FALSE, importantBadges |-> << >>, otherBadges |-> << >>]

(***************************************************************************)
(* The filesystem scanner (fileReader.js)                                  *)
(*                                                                         *)
(* A directory is its listing, in the order fs.readdir returns it: a       *)
(* sequence of entries, each a file or a directory with its own listing.   *)
(* A path is the sequence of names from basePath down.                     *)
(***************************************************************************)
File(name) == [name |-> name, isDir |-> FALSE, children |-> << >>]
Dir(name, listing) == [name |-> name, isDir |-> TRUE, children |-> listing]

Range(seq) == { seq[i] : i \in 1..Len(seq) }

\* the directory handed to getProjectTreeAndContents
basePath == << "project" >>

\* path.resolve(dir, dirent.name)
pathResolve(dir, name) == Append(dir, name)

\* path.relative(basePath, file).split(path.sep)
pathRelative(base, file) == SubSeq(file, Len(base) + 1, Len(file))

\* path.basename(basePath)
pathBasename(path) == path[Len(path)]

\* the characters of the names the trees use
Chars(name) ==
  CASE name = "a.js" -> << "a", ".", "j", "s" >>
    [] name = "b.js" -> << "b", ".", "j", "s" >>
    [] name = "c.js" -> << "c", ".", "j", "s" >>
    [] name = "x.log" -> << "x", ".", "l", "o", "g" >>
    [] name = "src" -> << "s", "r", "c" >>
    [] name = "lib" -> << "l", "i", "b" >>
    [] name = "sub" -> << "s", "u", "b" >>
    [] name = "rebuild" -> << "r", "e", "b", "u", "i", "l", "d" >>

\* A pattern of the ignore list as new RegExp(pattern) reads it: the
\* characters to find ("ANY" for an unescaped dot), and whether the match
\* is tied to the start (^) or the end ($) of the name.  A leading or
\* trailing .* matches anything and is left out.
Pattern(body, atStart, atEnd) == [body |-> body, atStart |-> atStart, atEnd |-> atEnd]

ignore ==
  << Pattern(<< "ANY", "g", "i", "t" >>, FALSE, FALSE),
     Pattern(<< "n", "o", "d", "e", "_", "m", "o", "d", "u", "l", "e", "s" >>, FALSE, FALSE),
     Pattern(<< "ANY", "D", "S", "_", "S", "t", "o", "r", "e" >>, FALSE, FALSE),
     Pattern(<< ".", "l", "o", "c", "k" >>, FALSE, TRUE),
     Pattern(<< ".", "l", "o", "g" >>, FALSE, TRUE),
     Pattern(<< "d", "i", "s", "t" >>, FALSE, FALSE),
     Pattern(<< "b", "u", "i", "l", "d" >>, FALSE, FALSE),
     Pattern(<< "c", "o", "v", "e", "r", "a", "g", "e" >>, FALSE, FALSE),
     Pattern(<< ".", "e", "n", "v" >>, TRUE, FALSE) >>

\* new RegExp(pattern).test(name)
RegExpTest(pat, name) ==
  LET cs == Chars(name)
      n == Len(pat.body)
  IN \E i \in 1..(Len(cs) - n + 1) :
       /\ \A k \in 1..n : pat.body[k] = "ANY" \/ pat.body[k] = cs[i + k - 1]
       /\ (pat.atStart => i = 1)
       /\ (pat.atEnd => i + n - 1 = Len(cs))

\* ignorePatterns.some(pattern => new RegExp(pattern).test(dirent.name))
IsIgnored(name) == \E k \in 1..Len(ignore) : RegExpTest(ignore[k], name)

\* a getFiles that tests only files against the patterns
SkipsDirentFilesOnly(dirent) == ~dirent.isDir /\ IsIgnored(dirent.name)

\* getFiles returns [] for an ignored entry, whether file or directory
SkipsDirent(dirent) == IsIgnored(dirent.name)

\* what fs.readdir(dir, { withFileTypes: true }) lists
RECURSIVE ListingBelow(_, _)
ListingBelow(listing, path) ==
  IF Len(path) = 0 THEN listing
  ELSE ListingBelow((CHOOSE e \in Range(listing) : e.name = path[1]).children, Tail(path))

ListingAt(tree, dir) == ListingBelow(tree, pathRelative(basePath, dir))

\* the subdirectories getFiles(dir) recurses into
ChildDirs(tree, dir) ==
  { pathResolve(dir, e.name) : e \in { x \in Range(ListingAt(tree, dir)) :
                                    x.isDir /\ ~SkipsDirent(x) } }

\* seq[1] \o seq[2] \o ...
RECURSIVE Flatten(_)
Flatten(seqs) == IF Len(seqs) = 0 THEN << >> ELSE seqs[1] \o Flatten(Tail(seqs))

\* the positions of order at which the elements of set occur, as a sequence
\* of the elements in that order
RECURSIVE InOrder(_, _)
InOrder(order, set) ==
  IF Len(order) = 0 THEN << >>
  ELSE (IF order[1] \in set THEN << order[1] >> ELSE << >>) \o InOrder(Tail(order), set)

\* a getFiles that collects the files first and then the subdirectories'
\* results as they arrive
MergeInCompletionOrder(tree, dir, results, order) ==
  LET listing == ListingAt(tree, dir)
      files == [i \in 1..Len(listing) |->
                  IF SkipsDirent(listing[i]) \/ listing[i].isDir THEN << >>
                  ELSE << pathResolve(dir, listing[i].name) >>]
      done == InOrder(order, ChildDirs(tree, dir))
  IN Flatten(files) \o Flatten([i \in 1..Len(done) |-> results[done[i]]])

\* Array.prototype.concat(...await Promise.all(dirents.map(...))): the value
\* of each entry at the position of the entry in the listing
MergeResults(tree, dir, results, order) ==
  LET listing == ListingAt(tree, dir)
  IN Flatten([i \in 1..Len(listing) |->
       IF SkipsDirent(listing[i]) THEN << >>
       ELSE IF listing[i].isDir THEN results[pathResolve(dir, listing[i].name)]
       ELSE << pathResolve(dir, listing[i].name) >>])

Front(seq) == SubSeq(seq, 1, Len(seq) - 1)

\* getFiles(dir) resolves once its fs.readdir and the getFiles of all its
\* subdirectories have; that may in turn resolve its parent's Promise.all
RECURSIVE Settle(_, _, _, _)
Settle(tree, listed, st, dir) ==
  IF dir \in listed /\ ChildDirs(tree, dir) \subseteq DOMAIN st.results
  THEN LET next == [results |-> (dir :> MergeResults(tree, dir, st.results, st.order))
                                  @@ st.results,
                    order |-> Append(st.order, dir)]
       IN IF dir = basePath THEN next ELSE Settle(tree, listed, next, Front(dir))
  ELSE st

\* fileTreeObj: an object keeps its keys in insertion order; a file is the
\* value null, a directory a nested object
LeafNode == [leaf |-> TRUE, order |-> << >>, kids |-> << >>]
EmptyNode == [leaf |-> FALSE, order |-> << >>, kids |-> << >>]

\* parts.forEach(...) of getProjectTreeAndContents
RECURSIVE InsertPath(_, _)
InsertPath(node, parts) ==
  LET part == parts[1]
      known == part \in DOMAIN node.kids
      order == IF known THEN node.order ELSE Append(node.order, part)
  IN IF Len(parts) = 1
     THEN [leaf |-> FALSE, order |-> order, kids |-> (part :> LeafNode) @@ node.kids]
     ELSE LET child == IF known /\ ~node.kids[part].leaf THEN node.kids[part]
                       ELSE EmptyNode
          IN [leaf |-> FALSE, order |-> order,
              kids |-> (part :> InsertPath(child, Tail(parts))) @@ node.kids]

\* generateAsciiTree(node, prefix): one line per entry, with the prefix, the
\* corner or tee connector and the entry's name
RECURSIVE AsciiTreeFrom(_, _, _)
AsciiTreeFrom(node, prefix, i) ==
  IF i > Len(node.order) THEN << >>
  ELSE LET entry == node.order[i]
           isLast == i = Len(node.order)
       IN << [prefix |-> prefix, connector |-> IF isLast THEN "corner" ELSE "tee",
              entry |-> entry] >>
          \o (IF ~node.kids[entry].leaf
              THEN AsciiTreeFrom(node.kids[entry],
                                 Append(prefix, IF isLast THEN "blank" ELSE "bar"), 1)
              ELSE << >>)
          \o AsciiTreeFrom(node, prefix, i + 1)

generateAsciiTree(node) == AsciiTreeFrom(node, << >>, 1)

\* fs.readFile(file, 'utf-8'): the content is that of the file at the path
ContentOf(path) == [file |-> path]

\* the trees scanned: basePath lists at most MaxRootEntries entries
MaxRootEntries == 2

Level2Dirs == { << >>, << File("c.js") >> }

Level1Entries ==
  { File("b.js"), File("x.log") } \cup { Dir("sub", l) : l \in Level2Dirs }

DistinctNames(listing) ==
  \A i, j \in 1..Len(listing) : i # j => listing[i].name # listing[j].name

Listings(entries, n) ==
  { l \in UNION { [1..k -> entries] : k \in 0..n } : DistinctNames(l) }

Level1Dirs == Listings(Level1Entries, 2)

RootEntries ==
  { File("a.js") }
    \cup { Dir("src", l) : l \in Level1Dirs }
    \cup { Dir("lib", l) : l \in Level1Dirs }
    \cup { Dir("rebuild", << File("b.js") >>) }

Trees == Listings(RootEntries, MaxRootEntries)

NoPath == << "<none>" >>

ScanIdle ==
  /\ sTree = << >>
  /\ sReading = {}
  /\ sListed = {}
  /\ sResults = << >>
  /\ sOrder = << >>
  /\ sAllFiles = << >>
  /\ sNext = 0
  /\ sContents = << >>
  /\ sTreeObj = EmptyNode
  /\ sFailed = {}
  /\ sStatus = "idle"
  /\ sError = NoPath
  /\ sReturned = NoData

(***************************************************************************)
(* Descriptor contents (localMeta.js).  A content is the sequence of its   *)
(* characters, and the string methods and regular expressions the parsers  *)
(* use are computed on it.                                                 *)
(***************************************************************************)
WhiteSpace == { " ", "\t", "\n", "\r" }

Digits == << "0", "1", "2", "3", "4", "5", "6", "7", "8", "9" >>

LowerCase ==
  << "a", "b", "c", "d", "e", "f", "g", "h", "i", "j", "k", "l", "m",
     "n", "o", "p", "q", "r", "s", "t", "u", "v", "w", "x", "y", "z" >>

UpperCase ==
  << "A", "B", "C", "D", "E", "F", "G", "H", "I", "J", "K", "L", "M",
     "N", "O", "P", "Q", "R", "S", "T", "U", "V", "W", "X", "Y", "Z" >>

\* the character a case-insensitive match compares
toUpperCase(c) ==
  IF c \in Range(LowerCase)
  THEN UpperCase[CHOOSE i \in 1..Len(LowerCase) : LowerCase[i] = c]
  ELSE c

\* text has pat at position i
HasAt(text, i, pat) ==
  /\ i + Len(pat) - 1 <= Len(text)
  /\ \A k \in 1..Len(pat) : text[i + k - 1] = pat[k]

\* the same, letters compared without regard to case (the i flag)
HasAtIgnoreCase(text, i, pat) ==
  /\ i + Len(pat) - 1 <= Len(text)
  /\ \A k \in 1..Len(pat) : toUpperCase(text[i + k - 1]) = toUpperCase(pat[k])

\* text.indexOf(pat) + 1, 0 when pat does not occur
IndexOf(text, pat) ==
  IF \E i \in 1..Len(text) : HasAt(text, i, pat)
  THEN CHOOSE i \in 1..Len(text) :
         HasAt(text, i, pat) /\ \A j \in 1..(i - 1) : ~HasAt(text, j, pat)
  ELSE 0

\* text.includes(pat)
TextIncludes(text, pat) == IndexOf(text, pat) > 0

\* text.startsWith(pat)
StartsWith(text, pat) == HasAt(text, 1, pat)

\* text.split(sep)[0]
SplitFirst(text, sep) ==
  IF IndexOf(text, sep) = 0 THEN text ELSE SubSeq(text, 1, IndexOf(text, sep) - 1)

\* text.split('\n')
RECURSIVE SplitNewline(_)
SplitNewline(text) ==
  IF IndexOf(text, << "\n" >>) = 0 THEN << text >>
  ELSE << SubSeq(text, 1, IndexOf(text, << "\n" >>) - 1) >>
         \o SplitNewline(SubSeq(text, IndexOf(text, << "\n" >>) + 1, Len(text)))

\* text.trim()
RECURSIVE TrimStart(_)
TrimStart(text) ==
  IF Len(text) > 0 /\ text[1] \in WhiteSpace THEN TrimStart(Tail(text)) ELSE text

RECURSIVE TrimEnd(_)
TrimEnd(text) ==
  IF Len(text) > 0 /\ text[Len(text)] \in WhiteSpace
  THEN TrimEnd(SubSeq(text, 1, Len(text) - 1)) ELSE text

Trim(text) == TrimEnd(TrimStart(text))

\* the length of the longest run from position i of characters that are in
\* the class (inside) or not in it (~inside): a greedy \s*, \d+ or [^\s]+
RECURSIVE RunLength(_, _, _, _)
RunLength(text, i, class, inside) ==
  IF i <= Len(text) /\ ((text[i] \in class) = inside)
  THEN 1 + RunLength(text, i + 1, class, inside) ELSE 0

\* [...new Set(list)]: the first occurrence of each element, in order
RECURSIVE Unique(_)
Unique(list) ==
  IF Len(list) = 0 THEN << >>
  ELSE LET front == Unique(SubSeq(list, 1, Len(list) - 1))
           last == list[Len(list)]
       IN IF last \in Range(front) THEN front ELSE Append(front, last)

\* parseInt of a run of digits
RECURSIVE ParseInt(_)
ParseInt(digits) ==
  IF Len(digits) = 0 THEN 0
  ELSE 10 * ParseInt(SubSeq(digits, 1, Len(digits) - 1))
         + (CHOOSE d \in 0..9 : Digits[d + 1] = digits[Len(digits)])

\* the operators parseRequirementsTxt cuts a line at, in the order of the
\* chained split calls
VersionOperators ==
  << << "=", "=" >>, << ">", "=" >>, << "<", "=" >>, << "~", "=" >> >>

\* line.split('==')[0].split('>=')[0].split('<=')[0].split('~=')[0].trim()
RECURSIVE CutAtEach(_, _)
CutAtEach(line, ops) ==
  IF Len(ops) = 0 THEN line ELSE CutAtEach(SplitFirst(line, ops[1]), Tail(ops))

PackageName(line) == Trim(CutAtEach(line, VersionOperators))

\* line && !line.startsWith('#')
IsRequirementLine(line) == Len(line) > 0 /\ ~StartsWith(line, << "#" >>)

\* the record parseRequirementsTxt builds from the content of the file
ParseRequirements(content) ==
  LET lines == SplitNewline(content)
      trimmed == [i \in 1..Len(lines) |-> Trim(lines[i])]
      kept == SelectSeq(trimmed, IsRequirementLine)
  IN [type |-> "python",
      dependencies |-> [i \in 1..Len(kept) |-> PackageName(kept[i])],
      hasRequirements |-> TRUE]

\* [a-zA-Z_] and [a-zA-Z0-9_-]
IdentStart == Range(LowerCase) \cup Range(UpperCase) \cup { "_" }

IdentChar == IdentStart \cup Range(Digits) \cup { "-" }

\* trimmed.match(/^([a-zA-Z_][a-zA-Z0-9_-]*)\s*:/): the target captured, or
\* the empty text when the line does not match
TargetMatch(trimmed) ==
  IF Len(trimmed) = 0 \/ trimmed[1] \notin IdentStart THEN << >>
  ELSE LET n == RunLength(trimmed, 1, IdentChar, TRUE)
           gap == RunLength(trimmed, n + 1, WhiteSpace, TRUE)
       IN IF n + gap + 1 <= Len(trimmed) /\ trimmed[n + gap + 1] = ":"
          THEN SubSeq(trimmed, 1, n) ELSE << >>

\* the loop over the lines of parseMakefile: targets.push(target)
IsTargetLine(line) ==
  /\ TargetMatch(Trim(line)) # << >>
  /\ ~StartsWith(Trim(line), << "#" >>)
  /\ ~StartsWith(TargetMatch(Trim(line)), << "." >>)

TargetOfLine(line) == TargetMatch(Trim(line))

Word(str) ==
  CASE str = "install" -> << "i", "n", "s", "t", "a", "l", "l" >>
    [] str = "build" -> << "b", "u", "i", "l", "d" >>
    [] str = "run" -> << "r", "u", "n" >>
    [] str = "test" -> << "t", "e", "s", "t" >>
    [] str = "clean" -> << "c", "l", "e", "a", "n" >>
    [] str = "docs" -> << "d", "o", "c", "s" >>
    [] str = "doc" -> << "d", "o", "c" >>
    [] str = "FROM" -> << "F", "R", "O", "M" >>
    [] str = "EXPOSE" -> << "E", "X", "P", "O", "S", "E" >>
    [] str = "WORKDIR" -> << "W", "O", "R", "K", "D", "I", "R" >>
    [] str = "ENTRYPOINT" -> << "E", "N", "T", "R", "Y", "P", "O", "I", "N", "T" >>
    [] str = "CMD" -> << "C", "M", "D" >>

\* the record parseMakefile builds from the content of the file
ParseMakefileContent(content) ==
  LET kept == SelectSeq(SplitNewline(content), IsTargetLine)
      targets == [i \in 1..Len(kept) |-> TargetOfLine(kept[i])]
  IN [type |-> "makefile",
      targets |-> Unique(targets),
      commonTargets |->
        [hasInstall |-> Word("install") \in Range(targets),
         hasBuild |-> Word("build") \in Range(targets),
         hasRun |-> Word("run") \in Range(targets),
         hasTest |-> Word("test") \in Range(targets),
         hasClean |-> Word("clean") \in Range(targets),
         hasDocs |-> Word("docs") \in Range(targets) \/ Word("doc") \in Range(targets)]]

\* the capture of keyword\s+(class+) with the keyword at position i, or the
\* empty text when there is no match at i
CaptureAt(text, i, keyword, ignoreCase, class, inside) ==
  IF ~(IF ignoreCase THEN HasAtIgnoreCase(text, i, keyword) ELSE HasAt(text, i, keyword))
  THEN << >>
  ELSE LET from == i + Len(keyword)
           gap == RunLength(text, from, WhiteSpace, TRUE)
           n == RunLength(text, from + gap, class, inside)
       IN IF gap >= 1 /\ n >= 1 THEN SubSeq(text, from + gap, from + gap + n - 1)
          ELSE << >>

\* content.match(/keyword\s+(class+)/)[1] at the leftmost match, or the
\* empty text for null
Capture(text, keyword, ignoreCase, class, inside) ==
  LET hits == { i \in 1..Len(text) :
                  CaptureAt(text, i, keyword, ignoreCase, class, inside) # << >> }
  IN IF hits = {} THEN << >>
     ELSE CaptureAt(text, CHOOSE i \in hits : \A j \in hits : i <= j,
                    keyword, ignoreCase, class, inside)

\* exposedPort: null, kept apart from the numbers
NoPort == -1

\* the record parseDockerfile builds from the content of the file
ParseDockerfileContent(content) ==
  LET fromMatch == Capture(content, Word("FROM"), TRUE, WhiteSpace, FALSE)
      portMatch == Capture(content, Word("EXPOSE"), FALSE, Range(Digits), TRUE)
  IN [type |-> "docker",
      baseImage |-> fromMatch,
      hasExpose |-> TextIncludes(content, Word("EXPOSE")),
      exposedPort |-> IF portMatch # << >> THEN ParseInt(portMatch) ELSE NoPort,
      hasWorkdir |-> TextIncludes(content, Word("WORKDIR")),
      hasEntrypoint |-> TextIncludes(content, Word("ENTRYPOINT")),
      hasCmd |-> TextIncludes(content, Word("CMD")),
      isDockerized |-> TRUE]

\* the Docker lines of generateProjectSummary for the record of
\* parseDockerfile: `if (docker.exposedPort)` is false for null and for 0
DockerSummary(docker) ==
  << [text |-> "Dockerized application", image |-> docker.baseImage, port |-> NoPort] >>
  \o (IF docker.exposedPort # NoPort /\ docker.exposedPort # 0
      THEN << [text |-> "Exposes port", image |-> << >>, port |-> docker.exposedPort] >>
      ELSE << >>)

(***************************************************************************)
(* buildAIPrompt (generate.js): the prompt is the concatenation of its     *)
(* sections, kept here as the sequence of those sections                   *)
(***************************************************************************)
\* file.split('.').pop()
LastSegment(file) ==
  LET dots == { i \in 1..Len(file) : file[i] = "." }
  IN IF dots = {} THEN file
     ELSE SubSeq(file, (CHOOSE i \in dots : \A j \in dots : j <= i) + 1, Len(file))

\* `Please generate a comprehensive README.md for this project.`
RequestSection == [kind |-> "request"]

\* `GitHub Metadata:\nName: ...\nTopics: ...\n`
GithubSection(gd) == [kind |-> "GitHub Metadata", github |-> gd]

\* `\nProject Structure:\n` and the tree in a fence
TreeSection(tree) == [kind |-> "Project Structure", tree |-> tree]

\* `\nFile Contents:\n`
ContentsHeading == [kind |-> "File Contents"]

\* `\n**file**\n` and the content in a fence tagged with the language
FileSection(file, content) ==
  [kind |-> "file", file |-> file, language |-> LastSegment(file), content |-> content]

\* the four bullet points, the sentence on badges and the sentence on the
\* H1 header that end the template literal
InstructionSection ==
  [kind |-> "instructions",
   rules |-> << "Use only the provided project metadata and files",
                "Analyze the provided files and metadata to determine the project type",
                "Adapt the Usage section to fit the detected project type",
                "If the user provides extra instructions, follow them",
                "DO NOT include the badges in your response",
                "Generate only the README content, starting with the project title as an H1 header" >>]

\* `\n\nUser extra instructions: ` and the trimmed text
ExtraSection(text) == [kind |-> "User extra instructions", extra |-> text]

\* the file sections in the reverse of the order of the entries
FileSectionsReversed(entries) ==
  [i \in 1..Len(entries) |->
     FileSection(entries[Len(entries) + 1 - i][1], entries[Len(entries) + 1 - i][2])]

\* Object.entries(localData.fileContents), one section per entry
FileSections(entries) == [i \in 1..Len(entries) |-> FileSection(entries[i][1], entries[i][2])]

buildAIPrompt(gd, ld, extra) ==
  LET metadataSection ==
        (IF gd # NoData THEN << GithubSection(gd) >> ELSE << >>)
        \o (IF ld # NoData /\ Has(ld, "fileTree") /\ ld.fileTree # ""
            THEN << TreeSection(ld.fileTree) >> ELSE << >>)
        \o (IF ld # NoData /\ Has(ld, "fileContents")
            THEN << ContentsHeading >> \o FileSections(ld.fileContents) ELSE << >>)
  IN << RequestSection >> \o metadataSection \o << InstructionSection >>
       \o (IF extra # << >> /\ Trim(extra) # << >>
           THEN << ExtraSection(Trim(extra)) >> ELSE << >>)

\* `## Local Project Analysis:` with the project type, the summary and the
\* detected files
LocalSection(ld) == [kind |-> "Local Project Analysis", local |-> ld]

\* buildAIPrompt of src/generate.js: repository information if there is
\* githubData, the local analysis if there is localData, the instructions
buildAIPromptGenerateJs(gd, ld) ==
  << RequestSection >>
  \o (IF gd # NoData THEN << GithubSection(gd) >> ELSE << >>)
  \o (IF ld # NoData THEN << LocalSection(ld) >> ELSE << >>)
  \o << InstructionSection >>

\* the prompt generateReadmeContent builds, by the copy of generate.js
PromptOf(src, gd, ld, extra) ==
  IF src = "part_004" THEN buildAIPrompt(gd, ld, extra)
  ELSE buildAIPromptGenerateJs(gd, ld)

\* generateAllBadges is not called on its own while the other
\* specifications run
BadgesIdle ==
  /\ bGithub = NoData
  /\ bLocal = NoData
  /\ bOptions = << >>
  /\ bResult = NoBadges
  /\ bStatus = "idle"

\* no descriptor is parsed on its own while the other specifications run
ParseIdle ==
  /\ pKind = "none"
  /\ pContent = << >>
  /\ pResult = NoData
  /\ pStatus = "idle"

\* buildAIPrompt is not called on its own while the other specifications run
PromptIdle ==
  /\ qGithub = NoData
  /\ qLocal = NoData
  /\ qExtra = << >>
  /\ qPrompt = << >>
  /\ qStatus = "idle"

\* retryWithBackoff is not called while the other specifications run
RetryIdle ==
  /\ rMax = 0
  /\ rBase = 0
  /\ rAttempt = 0
  /\ rCalls = 0
  /\ rWaits = << >>
  /\ rLastError = NoData
  /\ rSettled = NoData
  /\ rStatus = "idle"

(***************************************************************************)
(* analyzeLocalProject is idle while Spec runs                             *)
(***************************************************************************)
AnalyzeIdle ==
  /\ aRoot = [n \in ParserNames |-> "absent"]
  /\ aIdx = 0
  /\ aMeta = NewMetadata
  /\ aAssigned = 0
  /\ aRan = << >>
  /\ aStatus = "idle"

\* docify is idle while the other specifications run
DocifyIdle ==
  /\ pc = "idle"
  /\ url = FALSE
  /\ isDryRun = FALSE
  /\ isGit = FALSE
  /\ root = [n \in ParserNames |-> "absent"]
  /\ githubData = NoData
  /\ localData = NoData
  /\ badges = NoBadges
  /\ finalContent = << >>
  /\ readme0 = NoReadme
  /\ readme = NoReadme
  /\ stdout = << >>
  /\ accessResult = "none"
  /\ prompted = FALSE
  /\ answer = FALSE
  /\ nWrites = 0
  /\ tempDirExists = FALSE
  /\ tempDirsMade = 0
  /\ outcome = "idle"
  /\ error = ""
  /\ configExists = FALSE
  /\ readmeContent = NoNarrative
  /\ calls = << >>
  /\ tip = "none"
  /\ exitStatus = Running
  /\ source = "none"
  /\ extraPrompt = << >>
  /\ prompt = << >>
  /\ cause = ""

(***************************************************************************)
(* docify(url, isDryRun)                                                   *)
(***************************************************************************)
Init ==
  /\ pc = "start"
  /\ url \in BOOLEAN
  /\ isDryRun \in BOOLEAN
  /\ isGit \in BOOLEAN
  /\ root \in DocifyRoots
  /\ githubData = NoData
  /\ localData = NoData
  /\ badges = NoBadges
  /\ finalContent = << >>
  /\ readme0 \in {NoReadme, OldReadme}
  /\ readme = readme0
  /\ stdout = << >>
  /\ accessResult = "none"
  /\ prompted = FALSE
  /\ answer = FALSE
  /\ nWrites = 0
  /\ tempDirExists = FALSE
  /\ tempDirsMade = 0
  /\ outcome = "running"
  /\ error = ""
  /\ configExists \in BOOLEAN
  /\ readmeContent = NoNarrative
  /\ calls = << >>
  /\ tip = "none"
  /\ exitStatus = Running
  /\ source = "part_004"
  /\ extraPrompt \in DocifyExtraPrompts
  /\ prompt = << >>
  /\ cause = ""
  /\ AnalyzeIdle
  /\ ScanIdle
  /\ BadgesIdle
  /\ ParseIdle
  /\ PromptIdle
  /\ RetryIdle

\* the catch block of docify: printError, a tip, throw error
Reject(message) ==
  /\ pc' = "done"
  /\ outcome' = "rejected"
  /\ error' = message
  /\ tip' = Tip(message)
  /\ exitStatus' = exitStatus

Resolve ==
  /\ pc' = "done"
  /\ outcome' = "resolved"
  /\ error' = error
  /\ tip' = tip
  /\ exitStatus' = exitStatus

Continue(next) ==
  /\ pc' = next
  /\ outcome' = outcome
  /\ error' = error
  /\ tip' = tip
  /\ exitStatus' = exitStatus

\* URL mode: githubData = await fetchRepoMetadata(url)
FetchRepoMetadataUrl ==
  /\ pc = "start"
  /\ url
  /\ \E r \in GithubDatas \cup { [failed |-> e] : e \in FetchErrors } :
       IF "failed" \in DOMAIN r
       THEN /\ Reject(r.failed)
            /\ githubData' = githubData
            /\ calls' = Append(calls, Call("fetchRepoMetadata", FALSE))
       ELSE /\ Continue(IF source = "part_004" THEN "tmpdir" ELSE "match")
            /\ githubData' = r
            /\ calls' = Append(calls, Call("fetchRepoMetadata", TRUE))
  /\ UNCHANGED << source, extraPrompt, prompt, cause, url, configExists, readmeContent, isDryRun, isGit, root, localData, badges, finalContent,
                  readme0, readme, stdout, accessResult, prompted, answer, nWrites,
                  tempDirExists, tempDirsMade >>
  /\ UNCHANGED << analyzeVars, scanVars, badgeVars, parseVars, promptVars, retryVars >>

\* const tempDir = tmp.dirSync({ unsafeCleanup: true })
CreateTempDir ==
  /\ pc = "tmpdir"
  /\ tempDirExists' = TRUE
  /\ tempDirsMade' = tempDirsMade + 1
  /\ calls' = Append(calls, Call("tmp.dirSync", TRUE))
  /\ Continue("clone")
  /\ UNCHANGED << source, extraPrompt, prompt, cause, url, configExists, readmeContent, isDryRun, isGit, root, githubData, localData, badges,
                  finalContent, readme0, readme, stdout, accessResult, prompted,
                  answer, nWrites >>
  /\ UNCHANGED << analyzeVars, scanVars, badgeVars, parseVars, promptVars, retryVars >>

\* try { await cloneRepo(...); localData = await getProjectTreeAndContents(...) }
\* finally { tempDir.removeCallback() }.  The github module exports
\* parseGitHubUrl, fetchRepoMetadata, getCurrentRepoUrl and checkRepoExists:
\* cloneRepo is undefined and the call throws a TypeError.
CloneRepoThrows == TRUE

CloneRepo ==
  /\ pc = "clone"
  /\ CloneRepoThrows
  /\ tempDirExists' = FALSE
  /\ calls' = Append(calls, Call("cloneRepo", FALSE))
  /\ Reject("cloneRepo is not a function")
  /\ UNCHANGED << source, extraPrompt, prompt, cause, url, configExists, readmeContent, isDryRun, isGit, root, githubData, localData, badges,
                  finalContent, readme0, readme, stdout, accessResult, prompted,
                  answer, nWrites, tempDirsMade >>
  /\ UNCHANGED << analyzeVars, scanVars, badgeVars, parseVars, promptVars, retryVars >>

\* a docify that goes on whatever isGitRepository answers
AfterGitCheckGoesOn(git) == "remote"

\* if (!(await isGitRepository())) throw new Error(...)
AfterGitCheck(git) == IF git THEN "remote" ELSE "raise"

\* local mode: if (!(await isGitRepository())) throw
IsGitRepository ==
  /\ pc = "start"
  /\ ~url
  /\ calls' = Append(calls, Call("isGitRepository", TRUE))
  /\ IF AfterGitCheck(isGit) = "remote" THEN Continue("remote")
     ELSE Reject("Current directory is not a Git repository and no URL was provided.")
  /\ UNCHANGED << source, extraPrompt, prompt, cause, url, configExists, readmeContent, isDryRun, isGit, root, githubData, localData, badges,
                  finalContent, readme0, readme, stdout, accessResult, prompted,
                  answer, nWrites, tempDirExists, tempDirsMade >>
  /\ UNCHANGED << analyzeVars, scanVars, badgeVars, parseVars, promptVars, retryVars >>

\* a docify without the try/catch around the local-mode fetch
AfterLocalFetchRaises(ok) == IF ok THEN "analyze" ELSE "raise"

\* catch (error) { warn; 'Proceeding with local analysis only...' }
AfterLocalFetch(ok) == "analyze"

\* try { githubData = await fetchRepoMetadata(await getCurrentRepoUrl()) }
\* catch { warn; proceed with local analysis only }
FetchLocalRemote ==
  /\ pc = "remote"
  /\ \E r \in GithubDatas
              \cup { [failed |-> e, by |-> "getCurrentRepoUrl"] : e \in RepoUrlErrors }
              \cup { [failed |-> e, by |-> "fetchRepoMetadata"] : e \in FetchErrors } :
       LET ok == "failed" \notin DOMAIN r
       IN /\ githubData' = IF ok THEN r ELSE githubData
          /\ calls' = IF ~ok /\ r.by = "getCurrentRepoUrl"
                       THEN Append(calls, Call("getCurrentRepoUrl", FALSE))
                       ELSE calls \o << Call("getCurrentRepoUrl", TRUE),
                                        Call("fetchRepoMetadata", ok) >>
          /\ IF AfterLocalFetch(ok) = "raise" THEN Reject(r.failed)
             ELSE Continue("analyze")
  /\ UNCHANGED << source, extraPrompt, prompt, cause, url, configExists, readmeContent, isDryRun, isGit, root, localData, badges, finalContent,
                  readme0, readme, stdout, accessResult, prompted, answer, nWrites,
                  tempDirExists, tempDirsMade >>
  /\ UNCHANGED << analyzeVars, scanVars, badgeVars, parseVars, promptVars, retryVars >>

\* localData = await analyzeLocalProject(workingDir)
AnalyzeLocal ==
  /\ pc = "analyze"
  /\ localData' = analyzeLocalProject(root)
  /\ calls' = Append(calls, Call("analyzeLocalProject", TRUE))
  /\ Continue("badges")
  /\ UNCHANGED << source, extraPrompt, prompt, cause, url, configExists, readmeContent, isDryRun, isGit, root, githubData, badges, finalContent,
                  readme0, readme, stdout, accessResult, prompted, answer, nWrites,
                  tempDirExists, tempDirsMade >>
  /\ UNCHANGED << analyzeVars, scanVars, badgeVars, parseVars, promptVars, retryVars >>

\* const { importantBadges, otherBadges } = generateAllBadges(githubData, localData, {})
GenerateBadges ==
  /\ pc = "badges"
  /\ LET r == generateAllBadges(githubData, localData, << >>)
     IN /\ calls' = Append(calls, Call("generateAllBadges", ~r.raised))
        /\ IF r.raised
           THEN /\ Reject("Unexpected token in JSON")
                /\ badges' = badges
           ELSE /\ Continue("generate")
                /\ badges' = r
  /\ UNCHANGED << source, extraPrompt, prompt, cause, url, configExists, readmeContent, isDryRun, isGit, root, githubData, localData, finalContent,
                  readme0, readme, stdout, accessResult, prompted, answer, nWrites,
                  tempDirExists, tempDirsMade >>
  /\ UNCHANGED << analyzeVars, scanVars, badgeVars, parseVars, promptVars, retryVars >>

\* a catch block that looks for the quota before the key
GenerationFailureQuotaFirst(message) ==
  IF Includes(message, "quota") \/ Includes(message, "limit")
  THEN "API quota exceeded. Please try again later or check your API usage limits."
  ELSE IF Includes(message, "API key")
  THEN "Invalid API key. Please run docsmith configure to set up your API key."
  ELSE "Failed to generate README content"

\* the catch block of generateReadmeContent: error.message.includes('API key'),
\* else includes('quota') || includes('limit'), else the generic failure
GenerationFailure(message) ==
  IF Includes(message, "API key")
  THEN "Invalid API key. Please run docsmith configure to set up your API key."
  ELSE IF Includes(message, "quota") \/ Includes(message, "limit")
  THEN "API quota exceeded. Please try again later or check your API usage limits."
  ELSE "Failed to generate README content"

\* const apiKey = await getApiKey(): readFile of a missing configuration
\* file rejects with ENOENT and getApiKey throws
getApiKey(exists) ==
  IF exists THEN [raised |-> FALSE, message |-> ""]
  ELSE [raised |-> TRUE,
        message |-> "API key not configured. Please run docsmith configure first"]

\* what the try block of generateReadmeContent ends with: the error of
\* getApiKey, an error of the generation service, or response.text
GenerationResults(exists) ==
  IF getApiKey(exists).raised THEN { [failed |-> getApiKey(exists).message] }
  ELSE { [text |-> n] : n \in Narratives }
         \cup { [failed |-> e] : e \in GenerationErrors \ { getApiKey(FALSE).message } }

\* a docify that takes the persist branch whatever the flag
OutputModeAlwaysPersist(dry) == "persist"

\* if (isDryRun) ... else ...
OutputMode(dry) == IF dry THEN "preview" ELSE "persist"

\* readmeContent = await generateReadmeContent(...); assemble; the dry run
\* prints finalContent and docify returns
GenerateReadme ==
  /\ pc = "generate"
  /\ \E r \in GenerationResults(configExists) :
       /\ prompt' = IF getApiKey(configExists).raised THEN prompt
                    ELSE PromptOf(source, githubData, localData, extraPrompt)
       /\ IF "failed" \in DOMAIN r
          THEN /\ Reject(GenerationFailure(r.failed))
               /\ cause' = r.failed
               /\ calls' = Append(calls, Call("generateReadmeContent", FALSE))
               /\ UNCHANGED << finalContent, stdout, readmeContent >>
          ELSE LET doc == FinalContent(source, r.text,
                            formatBadgesMarkdown(badges.importantBadges, badges.otherBadges))
               IN /\ readmeContent' = r.text
                  /\ cause' = cause
                  /\ calls' = Append(calls, Call("generateReadmeContent", TRUE))
                  /\ finalContent' = doc
                  /\ IF OutputMode(isDryRun) = "preview"
                     THEN /\ stdout' = doc
                          /\ Resolve
                     ELSE /\ stdout' = stdout
                          /\ Continue("access")
  /\ UNCHANGED << source, extraPrompt, url, configExists, isDryRun, isGit, root,
                  githubData, localData, badges, readme0, readme, accessResult,
                  prompted, answer, nWrites, tempDirExists, tempDirsMade >>
  /\ UNCHANGED << analyzeVars, scanVars, badgeVars, parseVars, promptVars, retryVars >>

\* a confirmOverwrite that prompts whether or not the target exists
AfterAccessAlwaysPrompts(exists) == "prompt"

\* confirmOverwrite: try { await fs.access(filePath); prompt }
\* catch { return true }: an absent target is written without a prompt
AfterAccess(exists) == IF exists THEN "prompt" ELSE "write"

AccessTarget ==
  /\ pc = "access"
  /\ accessResult' = IF readme.exists THEN "exists" ELSE "absent"
  /\ calls' = Append(calls, Call("confirmOverwrite", TRUE))
  /\ Continue(AfterAccess(readme.exists))
  /\ UNCHANGED << source, extraPrompt, prompt, cause, url, configExists, readmeContent, isDryRun, isGit, root, githubData, localData, badges,
                  finalContent, readme0, readme, stdout, prompted, answer, nWrites,
                  tempDirExists, tempDirsMade >>
  /\ UNCHANGED << analyzeVars, scanVars, badgeVars, parseVars, promptVars, retryVars >>

\* a docify that writes whatever the user answers
AfterConfirmIgnoresAnswer(overwrite) == "write"

\* if (!(await confirmOverwrite(outputPath))) { cancelled; return }
AfterConfirm(overwrite) == IF overwrite THEN "write" ELSE "return"

\* confirmOverwrite: answers = await inquirer.prompt(...); return answers.overwrite
PromptOverwrite ==
  /\ pc = "prompt"
  /\ \E a \in BOOLEAN :
       /\ prompted' = TRUE
       /\ answer' = a
       /\ calls' = Append(calls, Call("inquirer.prompt", TRUE))
       /\ IF AfterConfirm(a) = "return" THEN Resolve ELSE Continue("write")
  /\ UNCHANGED << source, extraPrompt, prompt, cause, url, configExists, readmeContent, isDryRun, isGit, root, githubData, localData, badges,
                  finalContent, readme0, readme, stdout, accessResult, nWrites,
                  tempDirExists, tempDirsMade >>
  /\ UNCHANGED << analyzeVars, scanVars, badgeVars, parseVars, promptVars, retryVars >>

\* await fs.writeFile(outputPath, finalContent, 'utf8'), the messages, and
\* `if (badges.length > 0)`: part_004 declares badges, src/generate.js does
\* not, and the read of the undeclared name throws a ReferenceError
WriteFile ==
  /\ pc = "write"
  /\ readme' = [exists |-> TRUE, content |-> finalContent]
  /\ nWrites' = nWrites + 1
  /\ calls' = Append(calls, Call("fs.writeFile", TRUE))
  /\ IF source = "part_004" THEN Resolve
     ELSE Reject("badges is not defined")
  /\ UNCHANGED << source, extraPrompt, prompt, cause, url, configExists, readmeContent, isDryRun, isGit, root, githubData, localData, badges,
                  finalContent, readme0, stdout, accessResult, prompted, answer,
                  tempDirExists, tempDirsMade >>
  /\ UNCHANGED << analyzeVars, scanVars, badgeVars, parseVars, promptVars, retryVars >>

\* main: docify resolved and the process ends, or the catch block runs
\* process.exit(1)
MainExit ==
  /\ pc = "done"
  /\ pc' = "exited"
  /\ exitStatus' = IF outcome = "rejected" THEN 1 ELSE 0
  /\ UNCHANGED << source, extraPrompt, prompt, cause, url, configExists, readmeContent, isDryRun, isGit, root, githubData,
                  localData, badges, finalContent, readme0, readme, stdout,
                  accessResult, prompted, answer, nWrites, tempDirExists,
                  tempDirsMade, outcome, error, calls, tip >>
  /\ UNCHANGED << analyzeVars, scanVars, badgeVars, parseVars, promptVars, retryVars >>

Next ==
  \/ FetchRepoMetadataUrl
  \/ CreateTempDir
  \/ CloneRepo
  \/ IsGitRepository
  \/ FetchLocalRemote
  \/ AnalyzeLocal
  \/ GenerateBadges
  \/ GenerateReadme
  \/ AccessTarget
  \/ PromptOverwrite
  \/ WriteFile
  \/ MainExit

Spec == Init /\ [][Next]_vars

(***************************************************************************)
(* analyzeLocalProject(basePath), one parser at a time                     *)
(***************************************************************************)
InitAnalyze ==
  /\ aRoot \in Roots
  /\ aIdx = 1
  /\ aMeta = NewMetadata
  /\ aAssigned = 0
  /\ aRan = << >>
  /\ aStatus = "running"
  /\ DocifyIdle
  /\ ScanIdle
  /\ BadgesIdle
  /\ ParseIdle
  /\ PromptIdle
  /\ RetryIdle

\* one iteration of for (const { name, parser } of parsers)
RunNextParser ==
  /\ aStatus = "running"
  /\ aIdx <= Len(parsers)
  /\ LET name == parsers[aIdx]
         res == RunParser(name, aRoot)
     IN /\ aMeta' = AnalyzeStep(aMeta, name, res)
        /\ aAssigned' = aAssigned + (IF AssignsType(aMeta, res) THEN 1 ELSE 0)
        /\ aRan' = Append(aRan, name)
        /\ aIdx' = AfterParser(aIdx, res)
  /\ UNCHANGED << aRoot, aStatus >>
  /\ UNCHANGED << docifyVars, scanVars, badgeVars, parseVars, promptVars, retryVars >>

\* metadata.summary = generateProjectSummary(metadata); return metadata
FinishAnalyze ==
  /\ aStatus = "running"
  /\ aIdx > Len(parsers)
  /\ aMeta' = [aMeta EXCEPT !.summary = generateProjectSummary(aMeta)]
  /\ aStatus' = "returned"
  /\ UNCHANGED << aRoot, aIdx, aAssigned, aRan >>
  /\ UNCHANGED << docifyVars, scanVars, badgeVars, parseVars, promptVars, retryVars >>

NextAnalyze ==
  \/ RunNextParser
  \/ FinishAnalyze

SpecAnalyze == InitAnalyze /\ [][NextAnalyze]_vars

(***************************************************************************)
(* getProjectTreeAndContents(basePath)                                     *)
(***************************************************************************)
InitScan ==
  /\ sTree \in Trees
  /\ sReading = { basePath }
  /\ sListed = {}
  /\ sResults = << >>
  /\ sOrder = << >>
  /\ sAllFiles = << >>
  /\ sNext = 0
  /\ sContents = << >>
  /\ sTreeObj = EmptyNode
  /\ sFailed = {}
  /\ sStatus = "listing"
  /\ sError = NoPath
  /\ sReturned = NoData
  /\ DocifyIdle
  /\ AnalyzeIdle
  /\ BadgesIdle
  /\ ParseIdle
  /\ PromptIdle
  /\ RetryIdle

\* a rejected fs.readdir rejects getFiles(dir), every Promise.all above it
\* and the await of getProjectTreeAndContents
RejectScan(path) ==
  /\ sFailed' = sFailed \cup { path }
  /\ sStatus' = "rejected"
  /\ sError' = path
  /\ sReturned' = NoData

\* the fs.readdir of one directory in flight settles; on success its
\* subdirectories' getFiles are started, and the promises that have nothing
\* left to wait for resolve
ReaddirSettles ==
  /\ sStatus = "listing"
  /\ \E dir \in sReading, ok \in BOOLEAN :
       IF ok
       THEN LET listed == sListed \cup { dir }
                st == Settle(sTree, listed, [results |-> sResults, order |-> sOrder], dir)
                done == basePath \in DOMAIN st.results
            IN /\ sListed' = listed
               /\ sReading' = (sReading \ { dir }) \cup ChildDirs(sTree, dir)
               /\ sResults' = st.results
               /\ sOrder' = st.order
               /\ sAllFiles' = IF done THEN st.results[basePath] ELSE sAllFiles
               /\ sNext' = IF done THEN 1 ELSE sNext
               /\ sStatus' = IF done THEN "reading" ELSE sStatus
               /\ UNCHANGED << sFailed, sError, sReturned >>
       ELSE /\ RejectScan(dir)
            /\ UNCHANGED << sListed, sReading, sResults, sOrder, sAllFiles, sNext >>
  /\ UNCHANGED << sTree, sContents, sTreeObj >>
  /\ UNCHANGED << docifyVars, analyzeVars, badgeVars, parseVars, promptVars, retryVars >>

\* a getProjectTreeAndContents that skips the file it cannot read
AfterReadFileSkipsFailure(ok) == IF ok THEN "index" ELSE "skip"

\* const content = await fs.readFile(file, 'utf-8'): a rejection leaves the
\* loop and rejects getProjectTreeAndContents
AfterReadFile(ok) == IF ok THEN "index" ELSE "reject"

\* one iteration of for (const file of allFiles)
ReadNextFile ==
  /\ sStatus = "reading"
  /\ sNext <= Len(sAllFiles)
  /\ \E ok \in BOOLEAN :
       LET file == sAllFiles[sNext]
           relativePath == pathRelative(basePath, file)
       IN CASE AfterReadFile(ok) = "index" ->
                 /\ sContents' = (relativePath :> ContentOf(file)) @@ sContents
                 /\ sTreeObj' = InsertPath(sTreeObj, relativePath)
                 /\ sNext' = sNext + 1
                 /\ UNCHANGED << sFailed, sStatus, sError, sReturned >>
            [] AfterReadFile(ok) = "skip" ->
                 /\ sFailed' = sFailed \cup { file }
                 /\ sNext' = sNext + 1
                 /\ UNCHANGED << sContents, sTreeObj, sStatus, sError, sReturned >>
            [] OTHER ->
                 /\ RejectScan(file)
                 /\ UNCHANGED << sContents, sTreeObj, sNext >>
  /\ UNCHANGED << sTree, sReading, sListed, sResults, sOrder, sAllFiles >>
  /\ UNCHANGED << docifyVars, analyzeVars, badgeVars, parseVars, promptVars, retryVars >>

\* fileTree = `${path.basename(basePath)}/\n${generateAsciiTree(fileTreeObj)}`;
\* return { fileTree, fileContents }
FinishScan ==
  /\ sStatus = "reading"
  /\ sNext > Len(sAllFiles)
  /\ sReturned' = [fileTree |-> [root |-> pathBasename(basePath),
                                  lines |-> generateAsciiTree(sTreeObj)],
                    fileContents |-> sContents]
  /\ sStatus' = "resolved"
  /\ UNCHANGED << sTree, sReading, sListed, sResults, sOrder, sAllFiles, sNext,
                  sContents, sTreeObj, sFailed, sError >>
  /\ UNCHANGED << docifyVars, analyzeVars, badgeVars, parseVars, promptVars, retryVars >>

NextScan ==
  \/ ReaddirSettles
  \/ ReadNextFile
  \/ FinishScan

SpecScan == InitScan /\ [][NextScan]_vars

(***************************************************************************)
(* generateAllBadges(githubData, localData, options) on its own            *)
(***************************************************************************)
\* remote metadata as a caller may pass it: what fetchRepoMetadata builds,
\* and objects of a GitHub response that lacks full_name or other fields
BadgeGithubDatas ==
  { NoData } \cup GithubDatas
    \cup { [name |-> "repo", fullName |-> fn, stars |-> 5, forks |-> 1,
            language |-> lang, license |-> lic] :
             fn \in {Undefined, "owner/repo"}, lang \in {"", "Rust"},
             lic \in {"", "Apache-2.0"} }
    \cup { [name |-> "repo", fullName |-> "owner/repo"] }

\* the content of package.json in a scan result
PackageContents ==
  { JsonObject("x", "1.0.0"), JsonObject("x", Undefined),
    JsonObject(Undefined, "1.0.0"), JsonObject("x", ""), Malformed, EmptyFile }

\* fileContents of a scan result: package.json, Dockerfile and
\* requirements.txt may each be there
ScanContents ==
  { c \in UNION { [names -> PackageContents \cup {PlainText}] :
                    names \in SUBSET {"package.json", "Dockerfile", "requirements.txt"} } :
      \A n \in DOMAIN c :
        IF n = "package.json" THEN c[n] \in PackageContents
        ELSE c[n] \in {PlainText, EmptyFile} }

\* local data as a caller may pass it: none, the metadata analyzeLocalProject
\* aggregates, or the result of getProjectTreeAndContents
BadgeLocalDatas ==
  { NoData }
    \cup { analyzeLocalProject(r) : r \in DocifyRoots }
    \cup { [fileTree |-> "tree", fileContents |-> c] : c \in ScanContents }

BadgeOptions == { << >>, [style |-> "plastic"] }

InitBadges ==
  /\ bGithub \in BadgeGithubDatas
  /\ bLocal \in BadgeLocalDatas
  /\ bOptions \in BadgeOptions
  /\ bResult = NoBadges
  /\ bStatus = "called"
  /\ DocifyIdle
  /\ AnalyzeIdle
  /\ ScanIdle
  /\ ParseIdle
  /\ PromptIdle
  /\ RetryIdle

CallGenerateAllBadges ==
  /\ bStatus = "called"
  /\ LET r == generateAllBadges(bGithub, bLocal, bOptions)
     IN /\ bResult' = r
        /\ bStatus' = IF r.raised THEN "raised" ELSE "returned"
  /\ UNCHANGED << bGithub, bLocal, bOptions >>
  /\ UNCHANGED << docifyVars, analyzeVars, scanVars, parseVars, promptVars, retryVars >>

NextBadges == CallGenerateAllBadges

SpecBadges == InitBadges /\ [][NextBadges]_vars

(***************************************************************************)
(* The content of one descriptor through its parser                        *)
(***************************************************************************)
\* the contents enumerated have at most MaxContentLen characters, and a
\* Dockerfile at most MaxDirectives directives
MaxContentLen == 4

MaxDirectives == 3

Texts(chars, n) == UNION { [1..k -> chars] : k \in 0..n }

\* foo>=1.2.3  # comment
ExampleRequirement ==
  << "f", "o", "o", ">", "=", "1", ".", "2", ".", "3", " ", " ", "#", " ",
     "c", "o", "m", "m", "e", "n", "t" >>

\* a comment, a blank line, the example line, a pinned and a bare name
ExampleRequirements ==
  << "#", " ", "d", "e", "p", "s", "\n", "\n", "f", "o", "o", ">", "=", "1",
     ".", "2", ".", "3", " ", " ", "#", " ", "c", "o", "m", "m", "e", "n",
     "t", "\n", "b", "a", "r", "=", "=", "2", "\n", " ", "b", "a", "z", " ",
     "\n" >>

RequirementsContents ==
  Texts({ "f", "=", ">", "#", " ", "\n" }, MaxContentLen)
    \cup { ExampleRequirement, ExampleRequirements }

\* .PHONY, a comment, build and test, build again, a recipe line
ExampleMakefile ==
  << ".", "P", "H", "O", "N", "Y", ":", " ", "b", "u", "i", "l", "d", "\n",
     "#", " ", "b", "u", "i", "l", "d", ":", "\n", "b", "u", "i", "l", "d",
     ":", "\n", "t", "e", "s", "t", ":", " ", "b", "u", "i", "l", "d", "\n",
     "b", "u", "i", "l", "d", ":", "\n", "\t", "e", "c", "h", "o", " ", "o",
     "k", "\n" >>

\* a variable assignment before the targets
ExampleMakefileVariable ==
  << "C", "C", " ", ":", "=", " ", "g", "c", "c", "\n", "i", "n", "s", "t",
     "a", "l", "l", ":", "\n", "d", "o", "c", ":", "\n" >>

MakefileContents ==
  Texts({ "b", ":", "#", " ", "\n", "=" }, MaxContentLen)
    \cup { ExampleMakefile, ExampleMakefileVariable }

\* a Dockerfile is a sequence of directives; its keywords are written in
\* upper or in lower case
Directive(keyword, lower, arg) == [keyword |-> keyword, lower |-> lower, arg |-> arg]

\* the arguments the directives are written with: two images, and the ports
\* 3000, 80 with a second port after it, and 0
DirectiveArgs ==
  [FROM |-> { << "n", "o", "d", "e", ":", "1", "8" >>, << "a" >> },
   EXPOSE |-> { << "3", "0", "0", "0" >>, << "8", "0", " ", "4", "4", "3" >>, << "0" >> },
   WORKDIR |-> { << "/", "a" >> },
   ENTRYPOINT |-> { << "s", "h" >> },
   CMD |-> { << "l", "s" >> }]

Directives ==
  UNION { { Directive(k, lower, arg) : lower \in BOOLEAN, arg \in DirectiveArgs[k] } :
            k \in DOMAIN DirectiveArgs }

Dockerfiles == UNION { [1..k -> Directives] : k \in 0..MaxDirectives }

toLowerCase(c) ==
  IF c \in Range(UpperCase)
  THEN LowerCase[CHOOSE i \in 1..Len(UpperCase) : UpperCase[i] = c]
  ELSE c

\* the text of a directive and of a Dockerfile as fs.readFile gives it
DirectiveText(d) ==
  LET keyword == Word(d.keyword)
  IN (IF d.lower THEN [i \in 1..Len(keyword) |-> toLowerCase(keyword[i])] ELSE keyword)
       \o << " " >> \o d.arg \o << "\n" >>

DockerfileText(directives) ==
  Flatten([i \in 1..Len(directives) |-> DirectiveText(directives[i])])

InitParse ==
  /\ pKind \in {"requirements.txt", "Makefile", "Dockerfile"}
  /\ pContent \in CASE pKind = "requirements.txt" -> RequirementsContents
                    [] pKind = "Makefile" -> MakefileContents
                    [] pKind = "Dockerfile" -> Dockerfiles
  /\ pResult = NoData
  /\ pStatus = "read"
  /\ DocifyIdle
  /\ AnalyzeIdle
  /\ ScanIdle
  /\ BadgesIdle
  /\ PromptIdle
  /\ RetryIdle

\* parseRequirementsTxt after fs.readFile has resolved
ReturnRequirements ==
  /\ pStatus = "read"
  /\ pKind = "requirements.txt"
  /\ pResult' = ParseRequirements(pContent)
  /\ pStatus' = "returned"
  /\ UNCHANGED << pKind, pContent >>
  /\ UNCHANGED << docifyVars, analyzeVars, scanVars, badgeVars, promptVars, retryVars >>

\* parseMakefile after fs.readFile has resolved
ReturnMakefile ==
  /\ pStatus = "read"
  /\ pKind = "Makefile"
  /\ pResult' = ParseMakefileContent(pContent)
  /\ pStatus' = "returned"
  /\ UNCHANGED << pKind, pContent >>
  /\ UNCHANGED << docifyVars, analyzeVars, scanVars, badgeVars, promptVars, retryVars >>

\* parseDockerfile after fs.readFile has resolved
ReturnDockerfile ==
  /\ pStatus = "read"
  /\ pKind = "Dockerfile"
  /\ pResult' = ParseDockerfileContent(DockerfileText(pContent))
  /\ pStatus' = "returned"
  /\ UNCHANGED << pKind, pContent >>
  /\ UNCHANGED << docifyVars, analyzeVars, scanVars, badgeVars, promptVars, retryVars >>

NextParse ==
  \/ ReturnRequirements
  \/ ReturnMakefile
  \/ ReturnDockerfile

SpecParse == InitParse /\ [][NextParse]_vars

(***************************************************************************)
(* SpecRace: docify of Spec beside another process that may create         *)
(* README.md in the working directory at any moment while docify runs      *)
(***************************************************************************)
\* the file the other process writes
TheirReadme == [exists |-> TRUE, content |-> << Run("# Theirs") >>]

OtherProcessCreatesReadme ==
  /\ pc \notin { "idle", "done", "exited" }
  /\ ~readme.exists
  /\ readme' = TheirReadme
  /\ UNCHANGED << pc, url, isDryRun, isGit, root, githubData, localData, badges,
                  finalContent, readme0, stdout, accessResult, prompted, answer,
                  nWrites, tempDirExists, tempDirsMade, outcome, error,
                  configExists, readmeContent, calls, tip, exitStatus, source,
                  extraPrompt, prompt, cause >>
  /\ UNCHANGED << analyzeVars, scanVars, badgeVars, parseVars, promptVars, retryVars >>

NextRace ==
  \/ FetchRepoMetadataUrl
  \/ CreateTempDir
  \/ CloneRepo
  \/ IsGitRepository
  \/ FetchLocalRemote
  \/ AnalyzeLocal
  \/ GenerateBadges
  \/ GenerateReadme
  \/ AccessTarget
  \/ PromptOverwrite
  \/ WriteFile
  \/ MainExit
  \/ OtherProcessCreatesReadme

SpecRace == Init /\ [][NextRace]_vars

(***************************************************************************)
(* SpecGenerateJs: one invocation of the docify of src/generate.js. Its    *)
(* local mode, badge step and output step are those of Spec; its URL mode  *)
(* clones nothing and analyses the working directory when its remote       *)
(* matches the repository fetched.                                         *)
(***************************************************************************)
InitGenerateJs ==
  /\ pc = "start"
  /\ url \in BOOLEAN
  /\ isDryRun \in BOOLEAN
  /\ isGit \in BOOLEAN
  /\ root \in DocifyRoots
  /\ githubData = NoData
  /\ localData = NoData
  /\ badges = NoBadges
  /\ finalContent = << >>
  /\ readme0 \in {NoReadme, OldReadme}
  /\ readme = readme0
  /\ stdout = << >>
  /\ accessResult = "none"
  /\ prompted = FALSE
  /\ answer = FALSE
  /\ nWrites = 0
  /\ tempDirExists = FALSE
  /\ tempDirsMade = 0
  /\ outcome = "running"
  /\ error = ""
  /\ configExists \in BOOLEAN
  /\ readmeContent = NoNarrative
  /\ calls = << >>
  /\ tip = "none"
  /\ exitStatus = Running
  /\ source = "src/generate.js"
  /\ extraPrompt = << >>
  /\ prompt = << >>
  /\ cause = ""
  /\ AnalyzeIdle
  /\ ScanIdle
  /\ BadgesIdle
  /\ ParseIdle
  /\ PromptIdle
  /\ RetryIdle

\* URL mode of src/generate.js: if (await isGitRepository()) try {
\* currentRepoUrl = await getCurrentRepoUrl(); if it includes
\* githubData.name, localData = await analyzeLocalProject(workingDir) }
\* catch { log }
MatchLocalRepo ==
  /\ pc = "match"
  /\ \E r \in { "no remote", "other repository", "same repository" } :
       /\ localData' = IF isGit /\ r = "same repository"
                       THEN analyzeLocalProject(root) ELSE localData
       /\ calls' = calls \o << Call("isGitRepository", TRUE) >>
                      \o (IF isGit THEN << Call("getCurrentRepoUrl", r # "no remote") >>
                          ELSE << >>)
                      \o (IF isGit /\ r = "same repository"
                          THEN << Call("analyzeLocalProject", TRUE) >> ELSE << >>)
  /\ Continue("badges")
  /\ UNCHANGED << source, extraPrompt, prompt, cause, url, configExists, readmeContent,
                  isDryRun, isGit, root, githubData, badges, finalContent, readme0,
                  readme, stdout, accessResult, prompted, answer, nWrites,
                  tempDirExists, tempDirsMade >>
  /\ UNCHANGED << analyzeVars, scanVars, badgeVars, parseVars, promptVars, retryVars >>

NextGenerateJs ==
  \/ FetchRepoMetadataUrl
  \/ MatchLocalRepo
  \/ IsGitRepository
  \/ FetchLocalRemote
  \/ AnalyzeLocal
  \/ GenerateBadges
  \/ GenerateReadme
  \/ AccessTarget
  \/ PromptOverwrite
  \/ WriteFile
  \/ MainExit

SpecGenerateJs == InitGenerateJs /\ [][NextGenerateJs]_vars

(***************************************************************************)
(* SpecPrompt: one call of buildAIPrompt                                   *)
(***************************************************************************)
\* three files of a scan result: path and content
PromptFiles ==
  { << << "a", ".", "j", "s" >>, "x = 1" >>,
    << << "s", "/", "b", ".", "p", "y" >>, "y = 2" >>,
    << << "M", "a", "k", "e", "f", "i", "l", "e" >>, "all:" >> }

\* fileContents in insertion order: up to two of the files
PromptContents ==
  { << >> } \cup { << f >> : f \in PromptFiles }
    \cup { p \in PromptFiles \X PromptFiles : p[1] # p[2] }

\* local data as a caller may pass it: none, the metadata analyzeLocalProject
\* aggregates, a scan result (of an empty directory too), a tree alone
PromptLocalDatas ==
  { NoData }
    \cup { analyzeLocalProject(r) : r \in DocifyRoots }
    \cup { [fileTree |-> t, fileContents |-> c] : t \in {"", "tree"}, c \in PromptContents }
    \cup { [fileTree |-> "tree"] }

\* extraPrompt: the default, blanks, and a text with blanks around it
ExtraPrompts == { << >>, << " ", " " >>, << "x" >>, << " ", "b", "e", " ", "b", " ", "\n" >> }

InitPrompt ==
  /\ qGithub \in { NoData } \cup GithubDatas
  /\ qLocal \in PromptLocalDatas
  /\ qExtra \in ExtraPrompts
  /\ qPrompt = << >>
  /\ qStatus = "called"
  /\ DocifyIdle
  /\ AnalyzeIdle
  /\ ScanIdle
  /\ BadgesIdle
  /\ ParseIdle
  /\ RetryIdle

CallBuildAIPrompt ==
  /\ qStatus = "called"
  /\ qPrompt' = buildAIPrompt(qGithub, qLocal, qExtra)
  /\ qStatus' = "returned"
  /\ UNCHANGED << qGithub, qLocal, qExtra >>
  /\ UNCHANGED << docifyVars, analyzeVars, scanVars, badgeVars, parseVars, retryVars >>

NextPrompt == CallBuildAIPrompt

SpecPrompt == InitPrompt /\ [][NextPrompt]_vars

(***************************************************************************)
(* SpecRetry: one call of retryWithBackoff(fn, maxRetries, baseDelay)      *)
(* (utils.js). fn is any function: each of its calls resolves or rejects.  *)
(***************************************************************************)
MaxRetries == 4

\* baseDelay in ms
BaseDelays == {0, 1, 1000}

\* the error the k-th call of fn rejects with, and the value fn resolves with
AttemptError(k) == [attempt |-> k]

FnValue == [value |-> "ok"]

\* a delay that does not grow with the attempt
DelayConstant(base, attempt) == base

\* const delay = baseDelay * Math.pow(2, attempt - 1)
Delay(base, attempt) == base * 2 ^ (attempt - 1)

InitRetry ==
  /\ rMax \in 0..MaxRetries
  /\ rBase \in BaseDelays
  /\ rAttempt = 1
  /\ rCalls = 0
  /\ rWaits = << >>
  /\ rLastError = NoData
  /\ rSettled = NoData
  /\ rStatus = "loop"
  /\ DocifyIdle
  /\ AnalyzeIdle
  /\ ScanIdle
  /\ BadgesIdle
  /\ ParseIdle
  /\ PromptIdle

\* attempt <= maxRetries: fn() is called and awaited
CallFn ==
  /\ rStatus = "loop"
  /\ rAttempt <= rMax
  /\ rCalls' = rCalls + 1
  /\ rStatus' = "calling"
  /\ UNCHANGED << rMax, rBase, rAttempt, rWaits, rLastError, rSettled >>
  /\ UNCHANGED << docifyVars, analyzeVars, scanVars, badgeVars, parseVars, promptVars >>

\* the loop ends without a return: throw lastError
LoopExit ==
  /\ rStatus = "loop"
  /\ rAttempt > rMax
  /\ rSettled' = rLastError
  /\ rStatus' = "rejected"
  /\ UNCHANGED << rMax, rBase, rAttempt, rCalls, rWaits, rLastError >>
  /\ UNCHANGED << docifyVars, analyzeVars, scanVars, badgeVars, parseVars, promptVars >>

\* return await fn()
FnResolves ==
  /\ rStatus = "calling"
  /\ rSettled' = FnValue
  /\ rStatus' = "resolved"
  /\ UNCHANGED << rMax, rBase, rAttempt, rCalls, rWaits, rLastError >>
  /\ UNCHANGED << docifyVars, analyzeVars, scanVars, badgeVars, parseVars, promptVars >>

\* catch (error): rethrow on the last attempt, otherwise start the sleep
FnRejects ==
  /\ rStatus = "calling"
  /\ rLastError' = AttemptError(rAttempt)
  /\ IF rAttempt = rMax
     THEN /\ rSettled' = AttemptError(rAttempt)
          /\ rStatus' = "rejected"
          /\ rWaits' = rWaits
     ELSE /\ rWaits' = Append(rWaits, Delay(rBase, rAttempt))
          /\ rStatus' = "sleeping"
          /\ rSettled' = rSettled
  /\ UNCHANGED << rMax, rBase, rAttempt, rCalls >>
  /\ UNCHANGED << docifyVars, analyzeVars, scanVars, badgeVars, parseVars, promptVars >>

\* the timer of sleep(delay) fires: attempt++
SleepDone ==
  /\ rStatus = "sleeping"
  /\ rAttempt' = rAttempt + 1
  /\ rStatus' = "loop"
  /\ UNCHANGED << rMax, rBase, rCalls, rWaits, rLastError, rSettled >>
  /\ UNCHANGED << docifyVars, analyzeVars, scanVars, badgeVars, parseVars, promptVars >>

NextRetry ==
  \/ CallFn
  \/ LoopExit
  \/ FnResolves
  \/ FnRejects
  \/ SleepDone

SpecRetry == InitRetry /\ [][NextRetry]_vars

\* every call of fn settles and every timer fires
SpecRetryFair == InitRetry /\ [][NextRetry]_vars /\ WF_vars(NextRetry)

(***************************************************************************)
(* Properties                                                              *)
(***************************************************************************)
Labels(list) == [i \in 1..Len(list) |-> list[i].label]

\* docify has returned or raised
Settled == pc \in {"done", "exited"}

\* C1: in persist mode, when README.md exists and the user answers no to
\* the overwrite prompt, docify returns normally, fs.writeFile is never
\* called and README.md is unchanged.
C1_DeclinedOverwriteIsNoOp ==
  (~isDryRun /\ readme0.exists /\ prompted /\ ~answer)
    => /\ Settled
       /\ outcome = "resolved"
       /\ nWrites = 0
       /\ readme = readme0

C1_Witness ==
  /\ ~isDryRun
  /\ readme0 = OldReadme
  /\ prompted
  /\ ~answer
  /\ pc = "done"
  /\ finalContent # << >>

\* C2 as claimed: with isDryRun docify mutates nothing in the filesystem, in
\* local mode and in URL mode alike: README.md is never written,
\* confirmOverwrite is never called and no other file or directory is
\* created or removed.
C2_DryRunMutatesNothing ==
  isDryRun
    => /\ nWrites = 0
       /\ readme = readme0
       /\ accessResult = "none"
       /\ ~prompted
       /\ tempDirsMade = 0
       /\ ~tempDirExists

\* C2 as amended: with isDryRun docify never writes README.md and never
\* calls confirmOverwrite, and a document it produces goes to standard
\* output; in local mode nothing is created or removed, in URL mode the one
\* mutation is the temporary clone directory, made at most once and removed
\* before docify returns or raises.
C2_DryRunLeavesWorkingDirectory ==
  isDryRun
    => /\ nWrites = 0
       /\ readme = readme0
       /\ accessResult = "none"
       /\ ~prompted
       /\ (~url => tempDirsMade = 0 /\ ~tempDirExists)
       /\ (url => tempDirsMade <= 1 /\ (Settled => ~tempDirExists))
       /\ (outcome = "resolved" => finalContent # << >> /\ stdout = finalContent)

C2_Witness ==
  /\ isDryRun
  /\ ~url
  /\ readme0 = OldReadme
  /\ outcome = "resolved"
  /\ stdout # << >>

Ecosystem(name) ==
  CASE name = "package.json" -> "node"
    [] name \in {"requirements.txt", "setup.py"} -> "python"
    [] name = "Cargo.toml" -> "rust"
    [] name = "Makefile" -> "make"
    [] name = "Dockerfile" -> "docker"

StatedPriority == << "node", "python", "rust", "make", "docker" >>

StatedProjectType(files) ==
  LET found == { Ecosystem(n) : n \in DOMAIN files }
  IN IF found = {} THEN "unknown"
     ELSE StatedPriority[CHOOSE i \in 1..Len(StatedPriority) :
            /\ StatedPriority[i] \in found
            /\ \A j \in 1..(i - 1) : StatedPriority[j] \notin found]

\* C4: after analyzeLocalProject, projectType is the tag of the
\* highest-priority ecosystem with a record (node > python > rust > make >
\* docker), 'unknown' iff there is no record, assigned at most once, and
\* one of unknown, node, python, rust, docker, make.
C4_ProjectTypeByStatedPriority ==
  aStatus = "returned"
    => /\ aMeta.projectType = StatedProjectType(aMeta.files)
       /\ (aMeta.projectType = "unknown" <=> DOMAIN aMeta.files = {})
       /\ aAssigned <= 1
       /\ aMeta.projectType \in {"unknown", "node", "python", "rust", "docker", "make"}

\* C5: whichever extractors fail to read or parse their file,
\* analyzeLocalProject returns without raising, has run every extractor in
\* order, and holds exactly the records of the extractors that succeeded on
\* a present descriptor.
C5_FailuresAreIsolated ==
  /\ aStatus # "raised"
  /\ (aStatus = "returned" =>
        /\ aRan = parsers
        /\ DOMAIN aMeta.files = { n \in ParserNames : aRoot[n] = "ok" }
        /\ \A n \in DOMAIN aMeta.files : aMeta.files[n] = RunParser(n, aRoot).value)

C5_Witness ==
  /\ aStatus = "returned"
  /\ aRoot["package.json"] = "malformed"
  /\ aRoot["Makefile"] = "unreadable"
  /\ aRoot["setup.py"] = "absent"
  /\ DOMAIN aMeta.files = {"requirements.txt", "Cargo.toml"}

\* every file of the tree, as the names from basePath down
RECURSIVE AllFilePaths(_)
AllFilePaths(listing) ==
  UNION { IF e.isDir THEN { << e.name >> \o q : q \in AllFilePaths(e.children) }
          ELSE { << e.name >> } : e \in Range(listing) }

Excluded(path) == \E i \in 1..Len(path) : IsIgnored(path[i])

\* the leaf paths of a rendered tree: a line is a leaf when the next line is
\* not nested below it, and its ancestors are the nearest earlier lines of
\* each smaller depth
LineDepth(line) == Len(line.prefix) + 1

LinePath(lines, i) ==
  [d \in 1..LineDepth(lines[i]) |->
     lines[CHOOSE j \in 1..i :
             /\ LineDepth(lines[j]) = d
             /\ \A k \in (j + 1)..i : LineDepth(lines[k]) > d].entry]

RenderedLeafPaths(lines) ==
  { LinePath(lines, i) : i \in { k \in 1..Len(lines) :
       k = Len(lines) \/ LineDepth(lines[k + 1]) <= LineDepth(lines[k]) } }

\* C6: after getProjectTreeAndContents the ContentIndex keys are the leaf
\* paths of the FileTree; every file with no excluded name on its path is in
\* both, and no excluded entry or descendant of an excluded directory is in
\* either.
C6_IndexMatchesTree ==
  sStatus = "resolved"
    => LET keys == DOMAIN sReturned.fileContents
           leaves == RenderedLeafPaths(sReturned.fileTree.lines)
       IN /\ keys = leaves
          /\ \A f \in AllFilePaths(sTree) : ~Excluded(f) => f \in keys /\ f \in leaves
          /\ \A f \in keys \cup leaves : f \in AllFilePaths(sTree) /\ ~Excluded(f)

C6_Witness ==
  /\ sStatus = "resolved"
  /\ \E f \in AllFilePaths(sTree) : Len(f) = 2 /\ ~Excluded(f)
  /\ \E f \in AllFilePaths(sTree) : IsIgnored(f[Len(f)]) /\ ~IsIgnored(f[1])
  /\ \E f \in AllFilePaths(sTree) : Len(f) = 2 /\ IsIgnored(f[1]) /\ ~IsIgnored(f[2])

\* the files of a listing in listing order, a directory's files in the place
\* of the directory, excluded entries left out
RECURSIVE DepthFirst(_, _)
DepthFirst(dir, listing) ==
  IF Len(listing) = 0 THEN << >>
  ELSE LET e == listing[1]
           here == IF IsIgnored(e.name) THEN << >>
                   ELSE IF e.isDir THEN DepthFirst(Append(dir, e.name), e.children)
                   ELSE << Append(dir, e.name) >>
       IN here \o DepthFirst(dir, Tail(listing))

\* the tree object after the files are inserted in the order given
RECURSIVE TreeOf(_, _)
TreeOf(node, files) ==
  IF Len(files) = 0 THEN node
  ELSE TreeOf(InsertPath(node, pathRelative(basePath, files[1])), Tail(files))

Position(order, x) == CHOOSE i \in 1..Len(order) : order[i] = x

\* C7: whatever the order in which the concurrent directory reads complete,
\* the file list of getFiles is the depth-first list in listing order, so
\* the insertion order and the rendered tree are fixed by the tree alone;
\* and a directory's result is produced only after those of all its
\* subdirectories.
C7_OrderIsListingOrder ==
  /\ \A d \in DOMAIN sResults :
       /\ sResults[d] = DepthFirst(d, ListingAt(sTree, d))
       /\ \A c \in ChildDirs(sTree, d) :
            /\ c \in DOMAIN sResults
            /\ Position(sOrder, c) < Position(sOrder, d)
  /\ (sStatus \in {"reading", "resolved"}
        => /\ sAllFiles = DepthFirst(basePath, sTree)
           /\ sTreeObj = TreeOf(EmptyNode, SubSeq(sAllFiles, 1, sNext - 1)))
  /\ (sStatus = "resolved"
        => sReturned.fileTree.lines
             = generateAsciiTree(TreeOf(EmptyNode, DepthFirst(basePath, sTree))))

\* two sibling directories with files, the later listed one resolved first
C7_Witness ==
  /\ sStatus = "resolved"
  /\ Len(sTree) = 2
  /\ LET first == pathResolve(basePath, sTree[1].name)
         second == pathResolve(basePath, sTree[2].name)
     IN /\ first \in DOMAIN sResults
        /\ second \in DOMAIN sResults
        /\ sResults[first] # << >>
        /\ sResults[second] # << >>
        /\ Position(sOrder, second) < Position(sOrder, first)
        /\ sAllFiles = sResults[first] \o sResults[second]

\* C8: when the listing of a directory or the read of a file fails, the
\* scan rejects with that error and returns neither a FileTree nor a
\* ContentIndex, and it stays rejected; a scan that resolves had no failure.
C8_FailureRejectsWholeScan ==
  /\ (sFailed # {}
        => /\ sStatus = "rejected"
           /\ sError \in sFailed
           /\ sReturned = NoData)
  /\ (sStatus = "resolved" => sFailed = {} /\ sReturned # NoData)
  /\ (sStatus # "resolved" => sReturned = NoData)

\* a file read fails after other files were read and indexed
C8_Witness ==
  /\ sStatus = "rejected"
  /\ sNext = 2
  /\ sError = sAllFiles[2]
  /\ DOMAIN sContents = { pathRelative(basePath, sAllFiles[1]) }
  /\ sReturned = NoData

\* a directory listing fails below the root
C8_WitnessListing ==
  /\ sStatus = "rejected"
  /\ sError \in sReading
  /\ sError # basePath

\* the input a badge is made from is there
HasRequiredInput(badge, gd, ld) ==
  CASE badge.label \in {"GitHub Stars", "GitHub Forks", "GitHub Issues", "Last Commit"} ->
         Truthy(Get(gd, "fullName")) /\ badge.value = gd.fullName
    [] badge.label = "License" ->
         Truthy(Get(gd, "license")) /\ badge.value = gd.license
    [] badge.label = "Language" ->
         Truthy(badge.value) /\ badge.value # "Unknown"
    [] badge.label = "Version" ->
         /\ HasContent(ld, "package.json")
         /\ Truthy(ld.fileContents["package.json"].version)
    [] badge.label = "Docker" -> HasContent(ld, "Dockerfile")
    [] OTHER -> FALSE

\* C11: no element of importantBadges or otherBadges is an empty or
\* placeholder badge; a badge whose required input is missing (no full
\* name, no license, language 'Unknown', no version) is left out, so
\* metadata without a license gives no License badge.
C11_NoPlaceholderBadge ==
  bStatus = "returned"
    => /\ \A b \in Range(bResult.importantBadges) \cup Range(bResult.otherBadges) :
            /\ b # EmptyBadge
            /\ Truthy(b.value)
            /\ HasRequiredInput(b, bGithub, bLocal)
       /\ (~Truthy(Get(bGithub, "license"))
             => "License" \notin Range(Labels(bResult.importantBadges)))

\* metadata with a full name and no license, and a manifest with no version
C11_Witness ==
  /\ bStatus = "returned"
  /\ bGithub # NoData
  /\ Get(bGithub, "license") = Null
  /\ Get(bGithub, "language") = "Unknown"
  /\ HasContent(bLocal, "package.json")
  /\ ~Truthy(bLocal.fileContents["package.json"].version)
  /\ Labels(bResult.importantBadges) = << "GitHub Stars" >>
  /\ Labels(bResult.otherBadges) = << "GitHub Forks", "GitHub Issues", "Last Commit" >>

\* the project root of scenario A: package.json with name x and version
\* 1.0.0 and no other descriptor
ScenarioA ==
  [n \in ParserNames |-> IF n = "package.json" THEN "ok" ELSE "absent"]

\* C12: for a root whose only descriptor is package.json {name x, version
\* 1.0.0} and no remote metadata, analyzeLocalProject gives projectType
\* 'node' and generateAllBadges(null, that metadata) gives exactly one
\* other badge, the JavaScript language badge, and exactly the version
\* badge as important badge.
C12_ScenarioA ==
  (bStatus = "returned" /\ bGithub = NoData /\ bLocal = analyzeLocalProject(ScenarioA))
    => /\ bLocal.projectType = "node"
       /\ Labels(bResult.otherBadges) = << "Language" >>
       /\ bResult.otherBadges[1].value = "JavaScript"
       /\ Labels(bResult.importantBadges) = << "Version" >>

\* the lines the two badge groups take in the document: a group that is
\* not empty is one line of badges and a blank line, then one blank line
BadgeBlock(importantBadges, otherBadges) ==
  (IF Len(importantBadges) > 0 THEN << JoinSpace(importantBadges), << >> >> ELSE << >>)
    \o (IF Len(otherBadges) > 0 THEN << JoinSpace(otherBadges), << >> >> ELSE << >>)
    \o << << >> >>

C13_WitnessSingleLine ==
  /\ readmeContent # NoNarrative
  /\ Len(SplitLines(readmeContent)) = 1
  /\ badges = NoBadges
  /\ outcome = "resolved"

Called(op) == \E i \in 1..Len(calls) : calls[i].op = op

Failed(op) == \E i \in 1..Len(calls) : calls[i] = Call(op, FALSE)

Times(op) == Cardinality({ i \in 1..Len(calls) : calls[i].op = op })

\* C14: in local mode a failure of getCurrentRepoUrl or fetchRepoMetadata
\* is caught: docify goes on with no remote metadata, runs
\* analyzeLocalProject, then badge synthesis and generation, and does not
\* raise because of that failure.
C14_LocalFetchFailureIsSoft ==
  (~url /\ (Failed("getCurrentRepoUrl") \/ Failed("fetchRepoMetadata")))
    => /\ githubData = NoData
       /\ pc \in {"analyze", "badges", "generate", "access", "prompt", "write",
                   "done", "exited"}
       /\ (pc # "analyze" => Called("analyzeLocalProject") /\ localData # NoData)
       /\ (pc \notin {"analyze", "badges"} => calls[Len(calls)].op # "analyzeLocalProject")
       /\ (pc \notin {"analyze", "badges"} => Called("generateAllBadges"))
       /\ (pc \notin {"analyze", "badges", "generate"} => Called("generateReadmeContent"))
       /\ (outcome = "rejected" => Failed("generateReadmeContent")
                                     /\ error \notin FetchErrors \cup RepoUrlErrors)

\* the fetch failed and docify still wrote the document
C14_Witness ==
  /\ ~url
  /\ Failed("fetchRepoMetadata")
  /\ outcome = "resolved"
  /\ nWrites = 1
  /\ Labels(badges.otherBadges) = << >>

\* getCurrentRepoUrl failed and docify still printed the document
C14_WitnessNoRemote ==
  /\ ~url
  /\ Failed("getCurrentRepoUrl")
  /\ ~Called("fetchRepoMetadata")
  /\ outcome = "resolved"
  /\ stdout # << >>

\* C15: with no URL and a working directory that is not a git repository,
\* docify raises before any remote fetch, local analysis, call of the
\* generation service, overwrite prompt or file write, and the process ends
\* with exit status 1.
C15_NotGitRaisesFirst ==
  (~url /\ ~isGit)
    => /\ pc \in {"start", "done", "exited"}
       /\ (pc = "start" => calls = << >> /\ outcome = "running")
       /\ (pc # "start"
             => /\ outcome = "rejected"
                /\ Includes(error, "Git repository")
                /\ calls = << Call("isGitRepository", TRUE) >>)
       /\ githubData = NoData
       /\ localData = NoData
       /\ readmeContent = NoNarrative
       /\ ~prompted
       /\ accessResult = "none"
       /\ nWrites = 0
       /\ readme = readme0
       /\ exitStatus \in {Running, 1}
       /\ (pc = "exited" <=> exitStatus = 1)

C15_Witness ==
  /\ ~url
  /\ ~isGit
  /\ pc = "exited"
  /\ exitStatus = 1
  /\ outcome = "rejected"
  /\ readme0 = OldReadme

\* C16: a failed fetch of the remote metadata is tried again under the retry
\* policy before docify takes the remote collaborator as failed, and no
\* local stage is tried twice.
C16_RemoteFetchIsRetried ==
  /\ ((Failed("fetchRepoMetadata") /\ pc # "remote") => Times("fetchRepoMetadata") >= 2)
  /\ \A op \in {"analyzeLocalProject", "generateAllBadges", "confirmOverwrite", "fs.writeFile"} :
       Times(op) <= 1

\* C17: when the configuration file does not exist, docify fails, the error
\* it reports is 'API key not configured' and the tip is to run docsmith
\* configure.
C17_MissingKeyIsReported ==
  (~configExists /\ Called("generateReadmeContent"))
    => /\ outcome = "rejected"
       /\ error = getApiKey(FALSE).message
       /\ tip = "Run docsmith configure to set up your API key"

\* the position of the first occurrence of any of the operators in the
\* line, 0 when there is none
FirstOperator(line) ==
  LET at == { i \in 1..Len(line) :
                \E k \in 1..Len(VersionOperators) : HasAt(line, i, VersionOperators[k]) }
  IN IF at = {} THEN 0 ELSE CHOOSE i \in at : \A j \in at : i <= j

StatedName(line) ==
  Trim(IF FirstOperator(line) = 0 THEN line ELSE SubSeq(line, 1, FirstOperator(line) - 1))

\* a line that is neither blank nor a full-line comment
IsStatedLine(line) == Trim(line) # << >> /\ Trim(line)[1] # "#"

StatedNames(content) ==
  LET kept == SelectSeq(SplitNewline(content), IsStatedLine)
  IN [i \in 1..Len(kept) |-> StatedName(kept[i])]

\* C18: for every requirements.txt content parseRequirementsTxt returns, in
\* file order, one name per line that is neither blank nor a comment, the
\* text of the line before the first occurrence of any of ==, >=, <=, ~=,
\* trimmed; 'foo>=1.2.3  # comment' gives exactly 'foo'.
C18_NameBeforeFirstOperator ==
  (pKind = "requirements.txt" /\ pStatus = "returned")
    => /\ pResult.dependencies = StatedNames(pContent)
       /\ (pContent = ExampleRequirement
             => pResult.dependencies = << << "f", "o", "o" >> >>)

\* the identifier at the start of the line when a colon follows it
\* immediately, the empty text otherwise
StatedTarget(line) ==
  LET trimmed == Trim(line)
      n == RunLength(trimmed, 1, IdentChar, TRUE)
  IN IF Len(trimmed) > 0 /\ trimmed[1] \in IdentStart
          /\ n + 1 <= Len(trimmed) /\ trimmed[n + 1] = ":"
     THEN SubSeq(trimmed, 1, n) ELSE << >>

HasStatedTarget(line) == StatedTarget(line) # << >>

StatedTargets(content) ==
  LET kept == SelectSeq(SplitNewline(content), HasStatedTarget)
  IN Unique([i \in 1..Len(kept) |-> StatedTarget(kept[i])])

\* C19: for every Makefile content, targets is the duplicate-free list of
\* the identifiers at line start that a colon follows immediately, comment
\* lines and dot-prefixed targets left out; each commonTargets flag is true
\* iff its conventional target is in targets.
C19_TargetsAsStated ==
  (pKind = "Makefile" /\ pStatus = "returned")
    => LET has(word) == Word(word) \in Range(pResult.targets)
       IN /\ pResult.targets = StatedTargets(pContent)
          /\ pResult.commonTargets =
               [hasInstall |-> has("install"), hasBuild |-> has("build"),
                hasRun |-> has("run"), hasTest |-> has("test"),
                hasClean |-> has("clean"), hasDocs |-> has("docs") \/ has("doc")]

\* the same descriptor with its keywords in upper case
InUpperCase(directives) == [i \in 1..Len(directives) |-> [directives[i] EXCEPT !.lower = FALSE]]

\* the first numeric port of the first exposed-port directive
StatedPort(directives) ==
  LET at == { i \in 1..Len(directives) : directives[i].keyword = "EXPOSE" }
  IN IF at = {} THEN NoPort
     ELSE LET arg == directives[CHOOSE i \in at : \A j \in at : i <= j].arg
          IN ParseInt(SubSeq(arg, 1, RunLength(arg, 1, Range(Digits), TRUE)))

\* C20: the record of parseDockerfile does not depend on the letter case
\* of the directive keywords: a descriptor in lower case gives the record of
\* the same descriptor in upper case, and exposedPort is the first numeric
\* port of the exposed-port directive.
C20_KeywordCaseDoesNotMatter ==
  (pKind = "Dockerfile" /\ pStatus = "returned")
    => /\ pResult = ParseDockerfileContent(DockerfileText(InUpperCase(pContent)))
       /\ pResult.exposedPort = StatedPort(pContent)

\* the image of a base-image directive written in upper case
StatedImages(directives) ==
  { directives[i].arg : i \in { j \in 1..Len(directives) :
      directives[j].keyword = "FROM" /\ ~directives[j].lower } }

\* the numeric ports of the exposed-port directives written in upper case
StatedPorts(directives) ==
  { ParseInt(SubSeq(directives[i].arg, 1, RunLength(directives[i].arg, 1, Range(Digits), TRUE))) :
      i \in { j \in 1..Len(directives) :
        directives[j].keyword = "EXPOSE" /\ ~directives[j].lower } }

MentionsPort(lines, port) == \E i \in 1..Len(lines) : lines[i].port = port

\* C21: for every Dockerfile containing 'FROM <image>' and 'EXPOSE <port>'
\* with a numeric port, the Docker record has baseImage = <image> and
\* exposedPort = <port> as a number, and the summary has a line mentioning
\* that port.
C21_ImageAndPortAsStated ==
  (pKind = "Dockerfile" /\ pStatus = "returned")
    => \A image \in StatedImages(pContent), port \in StatedPorts(pContent) :
         /\ pResult.baseImage = image
         /\ pResult.exposedPort = port
         /\ MentionsPort(DockerSummary(pResult), port)

\* the descriptors of one base-image directive and one exposed-port
\* directive, both in upper case, with a port other than 0
SingleStage(directives) ==
  /\ Cardinality({ i \in 1..Len(directives) : directives[i].keyword = "FROM" }) = 1
  /\ Cardinality({ i \in 1..Len(directives) : directives[i].keyword = "EXPOSE" }) = 1
  /\ StatedImages(directives) # {}
  /\ StatedPorts(directives) \notin { {}, {0} }

\* on those descriptors the record and the summary are as C21 states them
C21_SingleStageAsStated ==
  (pKind = "Dockerfile" /\ pStatus = "returned" /\ SingleStage(pContent))
    => \A image \in StatedImages(pContent), port \in StatedPorts(pContent) :
         /\ pResult.baseImage = image
         /\ pResult.exposedPort = port
         /\ MentionsPort(DockerSummary(pResult), port)

\* the place of a section in the stated order
SectionRank(section) ==
  CASE section.kind = "request" -> 0
    [] section.kind = "GitHub Metadata" -> 1
    [] section.kind = "Project Structure" -> 2
    [] section.kind = "File Contents" -> 3
    [] section.kind = "file" -> 3
    [] section.kind = "instructions" -> 4
    [] section.kind = "User extra instructions" -> 5

OfKind(sections, kind) == { i \in 1..Len(sections) : sections[i].kind = kind }

IsFileSection(section) == section.kind = "file"

\* a tree is present when it is given and has text, file contents when the
\* index is given, extra instructions when they have a non-blank character
TreePresent(ld) == ld # NoData /\ "fileTree" \in DOMAIN ld /\ ld.fileTree # ""

ContentsPresent(ld) == ld # NoData /\ "fileContents" \in DOMAIN ld

NonBlank(text) == \E i \in 1..Len(text) : text[i] \notin WhiteSpace

\* C22: buildAIPrompt emits its sections in one fixed order: remote
\* metadata, file tree, one fenced block per file in the order of the
\* content index, the fixed instruction block, the user's extra
\* instructions. Each data block is there iff its input is; the instruction
\* block (no badge markup, start with the project title as top-level
\* heading) is in every prompt; non-blank extra instructions are the last
\* text of the prompt.
C22_PromptSectionsInOrder ==
  qStatus = "returned"
    => LET files == SelectSeq(qPrompt, IsFileSection)
       IN /\ \A i, j \in 1..Len(qPrompt) :
               i < j => SectionRank(qPrompt[i]) <= SectionRank(qPrompt[j])
          /\ Cardinality(OfKind(qPrompt, "GitHub Metadata")) = IF qGithub # NoData THEN 1 ELSE 0
          /\ \A i \in OfKind(qPrompt, "GitHub Metadata") : qPrompt[i].github = qGithub
          /\ Cardinality(OfKind(qPrompt, "Project Structure")) = IF TreePresent(qLocal) THEN 1 ELSE 0
          /\ \A i \in OfKind(qPrompt, "Project Structure") : qPrompt[i].tree = qLocal.fileTree
          /\ Cardinality(OfKind(qPrompt, "File Contents")) = IF ContentsPresent(qLocal) THEN 1 ELSE 0
          /\ [i \in 1..Len(files) |-> << files[i].file, files[i].content >>]
               = IF ContentsPresent(qLocal) THEN qLocal.fileContents ELSE << >>
          /\ Cardinality(OfKind(qPrompt, "instructions")) = 1
          /\ \A i \in OfKind(qPrompt, "instructions") :
               /\ "DO NOT include the badges in your response" \in Range(qPrompt[i].rules)
               /\ "Generate only the README content, starting with the project title as an H1 header"
                    \in Range(qPrompt[i].rules)
          /\ IF NonBlank(qExtra)
             THEN /\ qPrompt[Len(qPrompt)].kind = "User extra instructions"
                  /\ qPrompt[Len(qPrompt)].extra = Trim(qExtra)
                  /\ Cardinality(OfKind(qPrompt, "User extra instructions")) = 1
             ELSE OfKind(qPrompt, "User extra instructions") = {}

C22_Witness ==
  /\ qStatus = "returned"
  /\ qGithub # NoData
  /\ TreePresent(qLocal)
  /\ ContentsPresent(qLocal)
  /\ Len(qLocal.fileContents) = 2
  /\ NonBlank(qExtra)
  /\ Trim(qExtra) # qExtra
  /\ Len(qPrompt) = 8

RetrySettled == rStatus \in {"resolved", "rejected"}

\* the waits made so far are baseDelay * 2^(k-1) after the k-th failure
WaitsAsStated == rWaits = [k \in 1..Len(rWaits) |-> rBase * 2 ^ (k - 1)]

\* what holds of retryWithBackoff at every moment: fn is called at most
\* maxRetries times; a success ends it with the value of that call, after a
\* wait behind each earlier failure; a rejection comes after maxRetries
\* calls, with a wait behind each failure but the last and with the error
\* of the last call
RetryAsStated ==
  /\ rCalls <= rMax
  /\ WaitsAsStated
  /\ rStatus = "resolved"
       => /\ rSettled = FnValue
          /\ Len(rWaits) = rCalls - 1
  /\ rStatus = "rejected"
       => /\ rCalls = rMax
          /\ rCalls >= 1 => /\ Len(rWaits) = rMax - 1
                            /\ rSettled = AttemptError(rMax)

\* C23: retryWithBackoff(fn, maxRetries, baseDelay) always terminates: it
\* calls fn at most maxRetries times, stops at the first success and returns
\* that value without further calls, waits baseDelay * 2^(k-1) ms after the
\* k-th failed attempt for every k < maxRetries, does not wait after the
\* last attempt, and then rejects with the error of the last attempt.
C23_RetryTerminatesAsStated ==
  /\ []RetryAsStated
  /\ [][RetrySettled => UNCHANGED retryVars]_vars
  /\ <>RetrySettled

\* three failures with two waits between them, then the rejection
C23_Witness ==
  /\ rStatus = "rejected"
  /\ rMax = 3
  /\ rBase = 1000
  /\ rCalls = 3
  /\ rWaits = << 1000, 2000 >>
  /\ rSettled = AttemptError(3)

\* a success at the third call
C23_WitnessSuccess ==
  /\ rStatus = "resolved"
  /\ rCalls = 3
  /\ rMax = 4
  /\ rWaits = << 1, 2 >>

\* C24: whenever docify rejects, README.md has not been modified by that
\* invocation: once the write of README.md has succeeded docify resolves
\* instead of raising.
C24_RejectionLeavesReadme ==
  outcome = "rejected" => (nWrites = 0 /\ readme = readme0)

\* local data is a result of getProjectTreeAndContents
IsScanResult(ld) == ld # NoData /\ {"fileTree", "fileContents"} \subseteq DOMAIN ld

\* C25: in URL mode the temporary clone directory is removed on every path
\* before docify returns or raises, and the clone step is a call of a clone
\* function: a URL-mode run does not end because that name is undefined,
\* and it reaches badge synthesis with the scan result of the directory as
\* its local data.
C25_UrlModeCleansUpAndScans ==
  url => /\ Settled => ~tempDirExists
         /\ error # "cloneRepo is not a function"
         /\ Called("generateAllBadges") => IsScanResult(localData)

\* the category the claim gives a failure of the generation step
StatedCategory(message) ==
  CASE Includes(message, "API key") -> "API key"
    [] ~Includes(message, "API key")
         /\ (Includes(message, "quota") \/ Includes(message, "limit")) -> "quota"
    [] OTHER -> "generic"

CategoryOf(raised) ==
  CASE raised = "Invalid API key. Please run docsmith configure to set up your API key."
         -> "API key"
    [] raised = "API quota exceeded. Please try again later or check your API usage limits."
         -> "quota"
    [] raised = "Failed to generate README content" -> "generic"
    [] OTHER -> "none"

\* C26: the overwrite prompt and the file write happen only after the
\* generation call has returned successfully; if generation fails the user
\* is never prompted, README.md is not touched, and the failure is re-raised
\* as exactly one of three categories chosen in the order 'API key', then
\* 'quota'/'limit', then generic.
C26_GenerationBeforePromptAndWrite ==
  /\ (Called("confirmOverwrite") \/ prompted \/ nWrites > 0)
       => (Called("generateReadmeContent") /\ ~Failed("generateReadmeContent"))
  /\ Failed("generateReadmeContent")
       => /\ ~Called("confirmOverwrite")
          /\ ~prompted
          /\ nWrites = 0
          /\ readme = readme0
          /\ outcome = "rejected"
          /\ CategoryOf(error) = StatedCategory(cause)

\* a failure whose message names the key and a limit is raised as a key
\* failure
C26_Witness ==
  /\ Failed("generateReadmeContent")
  /\ cause = "Requests from this API key exceed the rate limit"
  /\ CategoryOf(error) = "API key"
  /\ readme0.exists
  /\ ~isDryRun

C26_WitnessWritten ==
  /\ nWrites = 1
  /\ prompted

\* a block of project data: remote metadata, the file tree, a file's content
IsDataSection(section) ==
  section.kind \in { "GitHub Metadata", "Project Structure", "file", "Local Project Analysis" }

\* C27: every prompt docify sends to the generation service contains at
\* least one project-data block (remote metadata, file tree or file
\* contents), also in local mode after a failed remote fetch: the service is
\* never called with a prompt that holds only the fixed instruction text.
C27_PromptCarriesProjectData ==
  prompt # << >> => \E i \in 1..Len(prompt) : IsDataSection(prompt[i])

\* C28: generateAllBadges never raises: for every remote metadata value
\* (absent too) and every local data value, a scan result whose package.json
\* content is not valid JSON included, it returns the two badge sequences.
C28_BadgesNeverRaise ==
  bStatus # "called" => (bStatus = "returned" /\ ~bResult.raised)

\* the style the claim resolves for a call
StatedStyle(gd, ld, options) ==
  IF options # << >> /\ "style" \in DOMAIN options THEN options.style
  ELSE IF gd # NoData /\ "stars" \in DOMAIN gd /\ gd.stars > 1000 THEN "for-the-badge"
  ELSE IF ld # NoData /\ "isLibrary" \in DOMAIN ld THEN "flat-square"
  ELSE IF ld # NoData /\ "isApp" \in DOMAIN ld THEN "flat"
  ELSE IF gd # NoData /\ "repoType" \in DOMAIN gd /\ gd.repoType = "legacy" THEN "plastic"
  ELSE "flat-square"

\* C29: all badges emitted by one generateAllBadges call, in both groups,
\* carry the same visual style, the one resolved for that call:
\* options.style if given, otherwise for-the-badge if stars > 1000, else
\* flat-square if library, else flat if application, else plastic if the
\* repo type is legacy, else flat-square.
C29_OneStylePerCall ==
  bStatus = "returned"
    => \A b \in Range(bResult.importantBadges) \cup Range(bResult.otherBadges) :
         b.style = StatedStyle(bGithub, bLocal, bOptions)

\* the badges of the important group carry the resolved style
C29_ImportantBadgesInResolvedStyle ==
  bStatus = "returned"
    => \A b \in Range(bResult.importantBadges) :
         b.style = StatedStyle(bGithub, bLocal, bOptions)

\* C30: under every interleaving of docify with another process that may
\* create README.md, an existing README.md is never overwritten without
\* confirmation: if the file exists at the moment docify writes it, the
\* user confirmed the overwrite in this invocation.
C30_NoUnconfirmedOverwrite ==
  [][(nWrites' > nWrites /\ readme.exists) => (prompted /\ answer)]_vars

\* a node manifest / a Docker descriptor is present in the local data
\* docify passes: a record of the aggregated metadata in local mode, an
\* indexed file of the scan result in URL mode
LocalHas(ld, name) ==
  \/ (Has(ld, "files") /\ name \in DOMAIN ld.files)
  \/ HasContent(ld, name)

StatedImportant(gd, ld) ==
  (IF gd # NoData THEN << "GitHub Stars" >> ELSE << >>)
  \o (IF gd # NoData /\ Truthy(Get(gd, "license")) THEN << "License" >> ELSE << >>)
  \o (IF LocalHas(ld, "package.json") THEN << "Version" >> ELSE << >>)

\* C9: importantBadges is exactly, in this order, the star-count badge iff
\* remote metadata is present, the license badge iff remote metadata is
\* present and its license is known, the package-version badge iff a node
\* manifest is present in the local metadata.
C9_ImportantBadgesAsStated ==
  pc = "generate"
    => Labels(badges.importantBadges) = StatedImportant(githubData, localData)

StatedRemoteOther == << "GitHub Forks", "GitHub Issues", "Last Commit", "Language" >>

\* seq without its last element when that is the Docker badge
WithoutDocker(labels) ==
  IF Len(labels) > 0 /\ labels[Len(labels)] = "Docker"
  THEN SubSeq(labels, 1, Len(labels) - 1) ELSE labels

\* labels is StatedRemoteOther with some elements left out
IsRemoteOther(labels) ==
  \E keep \in SUBSET (1..Len(StatedRemoteOther)) :
    /\ Len(labels) = Cardinality(keep)
    /\ \A i \in 1..Len(labels) :
         labels[i] = StatedRemoteOther[
           CHOOSE k \in keep : Cardinality({ j \in keep : j < k }) = i - 1]

\* C10: otherBadges lists fork-count, open-issues-count, last-commit and
\* detected-language badges in that order, each only when remote metadata
\* is present, followed by the container-support badge iff a Docker
\* descriptor was found locally (by the aggregator, in local mode).
C10_OtherBadgesAsStated ==
  pc = "generate"
    => LET labels == Labels(badges.otherBadges)
       IN /\ IsRemoteOther(WithoutDocker(labels))
          /\ (githubData = NoData => WithoutDocker(labels) = << >>)
          /\ (LocalHas(localData, "Dockerfile")
                <=> (Len(labels) > 0 /\ labels[Len(labels)] = "Docker"))

====
